---- MODULE Spec2Model ----
(***************************************************************************)
(* A model of volt (vim-volt/go-volt): the transaction sentinel trx.lock,  *)
(* the lock document lock.json as the commands get, rm, migrate and        *)
(* profile change it, and the build engine (copy and symlink strategies)   *)
(* with its build manifest build-info.json.                                *)
(*                                                                         *)
(* The specifications share the variables:                                 *)
(*   SpecTrx   - several volt processes running a mutating command step by *)
(*               step (transaction.Create / Remove are not atomic);        *)
(*   SpecCrash - SpecTrx with processes that can be killed;                *)
(*   SpecLock  - one process running whole commands one after another on   *)
(*               lock.json and the source tree under repos/;               *)
(*   SpecBuild - whole builds on the runtime tree pack/volt/start and the  *)
(*               manifest, interleaved with changes of the lock version    *)
(*               and of the working trees;                                 *)
(*   SpecUnits - the acquisition units of one get, step by step;           *)
(*   SpecJoin  - SpecUnits with the collector that takes the results, and  *)
(*               no kill;                                                  *)
(*   SpecFtd   - the goroutines of one build step by step, around the      *)
(*               shared ftdetect directory;                                *)
(*   SpecWalk  - processes running rm step by step on the directories of   *)
(*               one repository, with the upward walk of removeDirs;       *)
(*   SpecGet   - several processes running get step by step: sentinel,     *)
(*               units, lock.json, build, release;                         *)
(*   SpecReport, SpecPack, SpecNormalize - the status lines of get,        *)
(*               pathutil.PackReposPathOf and pathutil.NormalizeRepos,     *)
(*               each applied to every input of a bounded set.             *)
(***************************************************************************)
EXTENDS Integers, Sequences, FiniteSets, TLC

VARIABLES
    \* ---- trx.lock and the processes of SpecTrx
    trxLock,      \* content of $VOLTPATH/trx.lock: NoFile or a pid
    pc,           \* pc[p]: where process p is in its command
    seen,         \* seen[p]: content of trx.lock when p's Create wrote its pid
    rdPid,        \* rdPid[p]: what p's Remove read from trx.lock
    diskTrx,      \* trx_id of lock.json on disk (SpecTrx)
    memTrx,       \* memTrx[p]: trx_id of p's in-memory lock document
    \* ---- the lock document and the source tree of SpecLock
    lockJSON,     \* lock.json on disk
    reposDir,     \* reposDir[r]: what is at $VOLTPATH/repos/r
    last,         \* what the last command did (history, for the properties)
    steps,        \* commands run so far (SpecLock)
    \* ---- the build engine of SpecBuild
    strategy,     \* build.strategy of config.toml
    bLock,        \* bLock[r]: the active repo's entry of lock.json (type, version)
    worktree,     \* worktree[r]: state of the source repository of r
    dst,          \* dst[r]: what is at pack/volt/start/<encoded r>
    systemDir,    \* pack/volt/start/system (the bundled plugconf) exists
    buildInfo,    \* build-info.json on disk: the manifest
    lastBuild,    \* what the last build did (history, for the properties)
    touched,      \* repos whose dst a build changed without writing the manifest
    bsteps,       \* units run and changes of the environment so far (SpecBuild)
    \* ---- the acquisition units of one get of SpecUnits
    getArgs,      \* the repository list and the flags of the get
    unit,         \* unit[i]: the goroutine getParallel started for getArgs.list[i]
    \* ---- the functions checked on their own
    input,        \* the arguments of the function
    output,       \* what it returned (NotCalled before the call)
    \* ---- the goroutines of one build of SpecFtd
    bpc,          \* bpc[g]: where goroutine g (Build, or the unit of a repo) is
    \* ---- the directories from the repository up to / (SpecWalk)
    isDir,        \* isDir[l]: the directory at level l of the path of a repo exists
    others,       \* others[l]: it holds more than the next directory of the path
    walk          \* the upward walk of removeDirs: who runs it, and where it is

trxVars   == <<trxLock, pc, seen, rdPid, diskTrx, memTrx>>
lockVars  == <<lockJSON, reposDir, last, steps>>
buildVars == <<strategy, bLock, worktree, dst, systemDir, buildInfo, lastBuild, touched,
               bsteps>>
unitVars  == <<getArgs, unit>>
pureVars  == <<input, output>>
goVars    == <<bpc, isDir, others, walk>>
vars      == <<trxLock, pc, seen, rdPid, diskTrx, memTrx,
               lockJSON, reposDir, last, steps,
               strategy, bLock, worktree, dst, systemDir, buildInfo, lastBuild, touched,
               bsteps,
               getArgs, unit, input, output, bpc, isDir, others, walk>>

-----------------------------------------------------------------------------
(* Bounds *)

NumProcs == 2          \* volt processes of SpecTrx
MaxTrx   == 2          \* commands stop bumping trx_id at this value
MaxArgs  == 2          \* longest repository list given to rm and profile add/rm
MaxSteps == 3          \* commands one behaviour of SpecLock runs
MaxAbove == 1          \* directories between / and the volt root
MaxUnits == 4          \* units the builds of one behaviour of SpecBuild run; a
                       \* change of the environment counts as one

Procs == 1..NumProcs
NoFile == 0            \* trx.lock does not exist

-----------------------------------------------------------------------------
(* transaction.Create and transaction.Remove *)

\* Create: ioutil.WriteFile(trxLockFile, ownPid): the file now holds the
\* caller's pid, whatever it held before.
CreateWriteFile(p, file) == p

\* Create: the pid read back equals the own pid.
CreateReadBackOk(p, file) == file = p

\* Remove, lines 47-57: the file could be read and holds the own pid.
RemoveNoDelete(p, content) == FALSE
RemoveMayDelete(p, content) == content # NoFile /\ content = p

\* Remove run to its end by a process that nobody interleaves with.
RemoveFile(p, file) == IF RemoveMayDelete(p, file) THEN NoFile ELSE file

\* A process is between a successful Create and the end of its Remove.
HoldingPcs == {"held", "written", "rmread"}
Holds(p) == pc[p] \in HoldingPcs

\* lockjson.Read() of the command (rm.go:108), before the transaction begins.
ReadLockJSON(p) ==
    /\ pc[p] = "idle"
    /\ diskTrx < MaxTrx
    /\ memTrx' = [memTrx EXCEPT ![p] = diskTrx]
    /\ pc' = [pc EXCEPT ![p] = "read"]
    /\ UNCHANGED <<trxLock, seen, rdPid, diskTrx>>
    /\ UNCHANGED <<lockVars, buildVars, unitVars, pureVars, goVars>>

\* transaction.Create, first half: write the own pid.
CreateWrite(p) ==
    /\ pc[p] = "read"
    /\ seen' = [seen EXCEPT ![p] = trxLock]
    /\ trxLock' = CreateWriteFile(p, trxLock)
    /\ pc' = [pc EXCEPT ![p] = "wrote"]
    /\ UNCHANGED <<rdPid, diskTrx, memTrx>>
    /\ UNCHANGED <<lockVars, buildVars, unitVars, pureVars, goVars>>

\* transaction.Create, second half: read the file back and compare; on
\* success the command goes on with lockJSON.TrxID++ (rm.go:119).
CreateReadBack(p) ==
    /\ pc[p] = "wrote"
    /\ IF CreateReadBackOk(p, trxLock)
         THEN /\ pc' = [pc EXCEPT ![p] = "held"]
              /\ memTrx' = [memTrx EXCEPT ![p] = @ + 1]
              /\ UNCHANGED seen
         ELSE /\ pc' = [pc EXCEPT ![p] = "idle"]   \* the command returns the error
              /\ memTrx' = [memTrx EXCEPT ![p] = 0]
              /\ seen' = [seen EXCEPT ![p] = NoFile]
    /\ UNCHANGED <<trxLock, rdPid, diskTrx>>
    /\ UNCHANGED <<lockVars, buildVars, unitVars, pureVars, goVars>>

\* lockJSON.Write() (rm.go:160).
WriteLockJSON(p) ==
    /\ pc[p] = "held"
    /\ diskTrx' = memTrx[p]
    /\ pc' = [pc EXCEPT ![p] = "written"]
    /\ UNCHANGED <<trxLock, seen, rdPid, memTrx>>
    /\ UNCHANGED <<lockVars, buildVars, unitVars, pureVars, goVars>>

\* The deferred transaction.Remove, first half: read trx.lock. It runs after
\* the write and after every error return that follows the acquisition.
RemoveRead(p) ==
    /\ pc[p] \in {"held", "written", "built"}
    /\ IF RemoveMayDelete(p, trxLock)
         THEN /\ pc' = [pc EXCEPT ![p] = "rmread"]
              /\ rdPid' = [rdPid EXCEPT ![p] = trxLock]
              /\ UNCHANGED <<seen, memTrx>>
         ELSE /\ pc' = [pc EXCEPT ![p] = "idle"]   \* Remove returns, the command ends
              /\ rdPid' = [rdPid EXCEPT ![p] = NoFile]
              /\ memTrx' = [memTrx EXCEPT ![p] = 0]
              /\ seen' = [seen EXCEPT ![p] = NoFile]
    /\ UNCHANGED <<trxLock, diskTrx>>
    /\ UNCHANGED <<lockVars, buildVars, unitVars, pureVars, goVars>>

\* transaction.Remove, second half: os.Remove(trxLockFile).
RemoveDelete(p) ==
    /\ pc[p] = "rmread"
    /\ trxLock' = NoFile
    /\ pc' = [pc EXCEPT ![p] = "idle"]                \* the command ends
    /\ rdPid' = [rdPid EXCEPT ![p] = NoFile]
    /\ memTrx' = [memTrx EXCEPT ![p] = 0]
    /\ seen' = [seen EXCEPT ![p] = NoFile]
    /\ UNCHANGED diskTrx
    /\ UNCHANGED <<lockVars, buildVars, unitVars, pureVars, goVars>>

\* doGet, lines 507-539: the units run and the wait loop takes their results;
\* a result without an error updates the in-memory document and sets
\* updatedLockJSON. A failure of config.Read() (line 501) returns before, from
\* "held" to the deferred Remove.
GetUnits(p) ==
    /\ pc[p] = "held"
    /\ \E updatedLockJSON \in BOOLEAN :
          pc' = [pc EXCEPT ![p] = IF updatedLockJSON THEN "updated" ELSE "collected"]
    /\ UNCHANGED <<trxLock, seen, rdPid, diskTrx, memTrx>>
    /\ UNCHANGED <<lockVars, buildVars, unitVars, pureVars, goVars>>

\* doGet, lines 544-550: lockJSON.Write() when updatedLockJSON.
GetWrite(p) ==
    /\ pc[p] = "updated"
    /\ diskTrx' = memTrx[p]
    /\ pc' = [pc EXCEPT ![p] = "gwritten"]
    /\ UNCHANGED <<trxLock, seen, rdPid, memTrx>>
    /\ UNCHANGED <<lockVars, buildVars, unitVars, pureVars, goVars>>

\* doGet, lines 552-556: doBuild, which reads lock.json from disk; whether it
\* fails or not, doGet returns after it and the deferred Remove runs.
GetBuild(p) ==
    /\ pc[p] \in {"gwritten", "collected"}
    /\ pc' = [pc EXCEPT ![p] = "built"]
    /\ UNCHANGED <<trxLock, seen, rdPid, diskTrx, memTrx>>
    /\ UNCHANGED <<lockVars, buildVars, unitVars, pureVars, goVars>>

\* The process is killed (or panics) while it is in transaction.Create or
\* holds the sentinel: neither the deferred Remove nor anything else of the
\* command runs any more, and trx.lock stays as it is.
Crash(p) ==
    /\ pc[p] \in HoldingPcs \cup {"wrote"}
    /\ pc' = [pc EXCEPT ![p] = "dead"]
    /\ UNCHANGED <<trxLock, seen, rdPid, diskTrx, memTrx>>
    /\ UNCHANGED <<lockVars, buildVars, unitVars, pureVars, goVars>>

\* trx.lock holds the pid of a process that crashed.
StaleSentinel == trxLock # NoFile /\ pc[trxLock] = "dead"

-----------------------------------------------------------------------------
(* The lock document lock.json and the source tree repos/ *)

Repos        == {"a", "b"}             \* canonical RepoIDs site/user/name
ProfileNames == {"default", "foo"}
Hashes       == {"h1", "h2"}           \* commit hashes
NoDir        == "none"                 \* repos/r does not exist
StaticDir    == "static"               \* repos/r exists, without .git
PartialClone == "partial"              \* repos/r holds some of the files of a clone
                                       \* a git working repository is its HEAD hash
SelfPid      == 1                      \* the pid of the one process of SpecLock

SeqToSet(s) == {s[i] : i \in 1..Len(s)}
Contains(s, x) == \E i \in 1..Len(s) : s[i] = x
RemoveAt(s, i) == SubSeq(s, 1, i - 1) \o SubSeq(s, i + 1, Len(s))
IsInjective(s) == \A i, j \in 1..Len(s) : s[i] = s[j] => i = j

ArgLists == UNION {[1..k -> Repos] : k \in 0..MaxArgs}
Orderings(S) == {s \in [1..Cardinality(S) -> S] : SeqToSet(s) = S}
\* The repository lists of get: one list for each set of repositories (the
\* units run in parallel, so the order of the arguments makes no difference).
GetArgLists == {CHOOSE s \in Orderings(S) : TRUE :
                   S \in {S \in SUBSET Repos : S # {} /\ Cardinality(S) <= MaxArgs}}

\* lockjson.ReposList.FindByPath: index of the entry, 0 when there is none.
FindByPath(repos, path) ==
    IF \E i \in 1..Len(repos) : repos[i].path = path
      THEN CHOOSE i \in 1..Len(repos) :
               /\ repos[i].path = path
               /\ \A j \in 1..(i - 1) : repos[j].path # path
      ELSE 0

\* lockjson.ProfileList.FindByName / FindIndexByName: index, 0 when none.
FindByName(profiles, name) ==
    IF \E i \in 1..Len(profiles) : profiles[i].name = name
      THEN CHOOSE i \in 1..Len(profiles) :
               /\ profiles[i].name = name
               /\ \A j \in 1..(i - 1) : profiles[j].name # name
      ELSE 0

\* lockjson.ReposList.RemoveAllByPath: every entry of that path is dropped.
RemoveAllByPath(repos, path) == SelectSeq(repos, LAMBDA e : e.path # path)

\* lockjson.ProfileList.RemoveAllReposPath: the path leaves every profile.
RemoveAllReposPath(profiles, path) ==
    [i \in 1..Len(profiles) |->
        [profiles[i] EXCEPT !.repos_path = SelectSeq(@, LAMBDA q : q # path)]]

\* The document lockjson.Read() returns when lock.json does not exist.
InitialLockJSON ==
    [trx_id |-> 0, current_profile_name |-> "default", repos |-> <<>>,
     profiles |-> <<[name |-> "default", repos_path |-> <<>>,
                     use_vimrc |-> TRUE, use_gvimrc |-> TRUE]>>]

EntryOf(lock, r) == lock.repos[FindByPath(lock.repos, r)]
HasEntry(lock, r) == FindByPath(lock.repos, r) # 0
CurrentProfile(lock) == lock.profiles[FindByName(lock.profiles, lock.current_profile_name)]

\* What a command leaves in `last`; logged: it reported an error (Run and
\* Profile call logger.Error before every return of a status other than 0).
LastOf(cmd, ret, created, wrote, pre) ==
    [cmd |-> cmd, ret |-> ret, created |-> created, wrote |-> wrote,
     logged |-> ret # 0,
     preTrx |-> pre.trx_id, ok |-> {}, failed |-> {},
     upgrade |-> FALSE, status |-> [r \in Repos |-> "none"]]

\* The sentinel after a command of the one process: Create, then the deferred
\* Remove when Create succeeded.
TrxAfterCommand(file) ==
    IF CreateReadBackOk(SelfPid, CreateWriteFile(SelfPid, file))
      THEN RemoveFile(SelfPid, CreateWriteFile(SelfPid, file))
      ELSE CreateWriteFile(SelfPid, file)

-----------------------------------------------------------------------------
(* get: one acquisition unit *)

\* What the environment does to a unit: which step fails (a step the unit
\* does not run cannot fail), the HEAD the remote gives, and whether the
\* os.RemoveAll of a rollback succeeds.
UnitChoices ==
    [kind : {"ok", "uptodate", "fromHeadErr", "opErr", "detectErr", "toHeadErr",
             "plugconfErr"},
     hash : Hashes, rollbackOk : BOOLEAN]

PanicExit == 2     \* exit status of a Go program that panicked

\* The result of a failed unit: status "! ... failed".
UnitFailed(dir) ==
    [err |-> TRUE, dir |-> dir, type |-> "", hash |-> "", status |-> "failed",
     panic |-> FALSE]

\* The unit panicked: no result is sent and the process dies.
UnitPanicked(dir) ==
    [err |-> TRUE, dir |-> dir, type |-> "", hash |-> "", status |-> "none",
     panic |-> TRUE]

\* getCmd.rollbackRepos: the source directory is removed when it exists.
rollbackRepos(dir) == NoDir

\* rollbackRepos when os.RemoveAll can fail: the directory stays.
Rollback(dir, c) == IF c.rollbackOk THEN rollbackRepos(dir) ELSE dir

\* getCmd.detectReposType on an existing directory.
detectReposType(dir) == IF dir = StaticDir THEN "static" ELSE "git"

\* The glyph of a status line: statusPrefixFailed, NoChange, Installed,
\* Upgraded.
Glyph(status) ==
    IF status = "failed" THEN "!"
    ELSE IF status \in {"nochange", "exists"} THEN "#"
    ELSE IF status \in {"installed", "added"} THEN "+"
    ELSE IF status \in {"upgraded", "revupdate"} THEN "*"
    ELSE ""

\* installPlugin, lines 761-770: the status of a result without an error.
\* opStatus is what the upgrade or the install has assigned; the if / else
\* on repos.Version assigns status on both branches.
FinalStatus(opStatus, upgraded, entry, version, toHash) ==
    LET status1 == IF upgraded THEN "upgraded" ELSE opStatus
    IN  IF entry # 0 /\ version # toHash THEN "revupdate" ELSE "nochange"

\* getCmd.installPlugin for repo path r: entry is 0 when lock.json has no
\* entry for r (repos == nil), version is the version of the entry, dir is
\* repos/r before the unit.
installPlugin(entry, version, dir, upgrade, c) ==
    LET exists    == dir # NoDir
        doUpgrade == upgrade /\ exists
        \* gitutil.GetHEAD fails on a directory without .git and on an
        \* incomplete clone
        fromErr   == doUpgrade /\ (dir \in {StaticDir, PartialClone} \/ c.kind = "fromHeadErr")
        afterOp   == IF doUpgrade
                       THEN (IF c.kind = "uptodate" THEN dir ELSE c.hash)
                       ELSE (IF ~exists THEN c.hash ELSE dir)
        opStatus  == IF doUpgrade
                       THEN (IF c.kind = "uptodate" THEN "nochange" ELSE "")
                       ELSE (IF ~exists THEN "installed" ELSE "")
        upgraded  == doUpgrade /\ c.kind # "uptodate"
        \* git.PlainOpen of detectReposType fails: GetHEAD is skipped
        detectErr == afterOp = PartialClone /\ c.kind = "detectErr"
        reposType == IF detectErr THEN "" ELSE detectReposType(afterOp)
        toHeadErr == reposType = "git" /\ (afterOp = PartialClone \/ c.kind = "toHeadErr")
        toHash    == IF reposType = "git" THEN afterOp ELSE ""
    IN  IF fromErr THEN UnitFailed(Rollback(dir, c))
        ELSE IF doUpgrade /\ entry = 0 THEN UnitFailed(dir)
        \* lines 679-697: after a failed upgradePlugin err holds the result of
        \* rollbackRepos, and err.Error() panics when the rollback succeeded
        ELSE IF doUpgrade /\ c.kind = "opErr"
               THEN (IF c.rollbackOk THEN UnitPanicked(rollbackRepos(dir))
                     ELSE UnitFailed(dir))
        \* a failed clone: the rollback finds what the clone has written
        ELSE IF ~exists /\ c.kind = "opErr" THEN UnitFailed(Rollback(PartialClone, c))
        ELSE IF toHeadErr THEN UnitFailed(Rollback(afterOp, c))
        ELSE [err |-> FALSE, dir |-> afterOp, type |-> reposType, hash |-> toHash,
              status |-> FinalStatus(opStatus, upgraded, entry, version, toHash),
              panic |-> FALSE]

\* getCmd.installPlugconf: a failure of fetchPlugconf rolls the repo back.
installPlugconf(pluginResult, c) ==
    IF c.kind = "plugconfErr" THEN UnitFailed(Rollback(pluginResult.dir, c))
    ELSE pluginResult

\* getCmd.getParallel: the plugin step, then the plug-config step.
getParallel(entry, version, dir, upgrade, createPlugconf, c) ==
    LET pluginResult == installPlugin(entry, version, dir, upgrade, c)
    IN  IF pluginResult.err \/ ~createPlugconf THEN pluginResult
        ELSE installPlugconf(pluginResult, c)

\* getCmd.updateReposVersion (part_001:926-959); pi is the index of the
\* current profile.
updateReposVersion(lock, reposPath, reposType, version, pi) ==
    LET i == FindByPath(lock.repos, reposPath)
        repos1 == IF i = 0
                    THEN Append(lock.repos, [type |-> reposType, trx_id |-> lock.trx_id,
                                             path |-> reposPath, version |-> version])
                    ELSE [lock.repos EXCEPT ![i].trx_id = lock.trx_id,
                                            ![i].version = version]
        profs1 == IF Contains(lock.profiles[pi].repos_path, reposPath)
                    THEN lock.profiles
                    ELSE [lock.profiles EXCEPT ![pi].repos_path = Append(@, reposPath)]
    IN  [lock EXCEPT !.repos = repos1, !.profiles = profs1]

\* The loop "Wait results" of doGet (part_001:525-539) over the results in
\* the order the units completed: a successful result updates the document.
RECURSIVE CollectResults(_, _, _, _)
CollectResults(lock, order, result, pi) ==
    IF order = <<>> THEN lock
    ELSE LET r == Head(order)
             lock1 == IF result[r].err THEN lock
                      ELSE updateReposVersion(lock, r, result[r].type, result[r].hash, pi)
         IN  CollectResults(lock1, Tail(order), result, pi)

\* The repos doGet starts a unit for (part_001:510-519): no entry in
\* lock.json, or a git entry.
Dispatched(lock, list) ==
    {r \in SeqToSet(list) : ~HasEntry(lock, r) \/ EntryOf(lock, r).type = "git"}

\* Every result the unit of r can send on the channel: over the steps that
\* can fail, the remote HEAD, and config.Get.CreateSkeletonPlugconf.
UnitResults(lock, dirs, r, upgrade) ==
    {getParallel(FindByPath(lock.repos, r),
                 IF HasEntry(lock, r) THEN EntryOf(lock, r).version ELSE "",
                 dirs[r], upgrade, createPlugconf, c) :
        createPlugconf \in BOOLEAN, c \in UnitChoices}

\* updateReposVersion returns added: the entry or the profile reference is new.
Added(lock, reposPath, pi) ==
    ~HasEntry(lock, reposPath) \/ ~Contains(lock.profiles[pi].repos_path, reposPath)

\* doGet, lines 525-538: the status line of a result.
ReportedStatus(status, added) ==
    IF status # "failed" /\ added /\ status = "exists" THEN "added" ELSE status

\* The status lines of the results, the documents being updated in `order`.
RECURSIVE CollectStatus(_, _, _, _, _)
CollectStatus(lock, order, result, pi, acc) ==
    IF order = <<>> THEN acc
    ELSE LET r == Head(order)
         IN  CollectStatus(updateReposVersion(lock, r, result[r].type, result[r].hash, pi),
                           Tail(order), result, pi,
                           [acc EXCEPT ![r] = ReportedStatus(result[r].status,
                                                             Added(lock, r, pi))])

\* Every way the units of U can end: a result for each.
RECURSIVE ResultFns(_, _, _, _)
ResultFns(lock, dirs, U, upgrade) ==
    IF U = {} THEN {<<>>}
    ELSE LET r == CHOOSE r \in U : TRUE
         IN  {f @@ (r :> x) : f \in ResultFns(lock, dirs, U \ {r}, upgrade),
                              x \in UnitResults(lock, dirs, r, upgrade)}

\* What a command leaves behind: the source tree, lock.json, trx.lock, and
\* the record of the command.
Outcome(dirs, lock, trx, l) == [dirs |-> dirs, lock |-> lock, trx |-> trx, last |-> l]

\* doGet from the results of its units on.
GetOutcomesOf(units, result, upgrade) ==
    LET lock0  == [lockJSON EXCEPT !.trx_id = @ + 1]           \* lockJSON.TrxID++
        pi     == FindByName(lockJSON.profiles, lockJSON.current_profile_name)
        failed == {r \in units : result[r].err}
        updatedLockJSON == units \ failed # {}
        dirs1  == [r \in Repos |-> IF r \in units THEN result[r].dir ELSE reposDir[r]]
    IN  IF \E r \in units : result[r].panic
          \* a unit panicked: the process dies where it is, the other units
          \* have finished or have not begun, lock.json is not written and
          \* the deferred transaction.Remove does not run
          THEN {Outcome([r \in Repos |->
                           IF r \in units /\ (result[r].panic \/ r \in finished)
                             THEN result[r].dir ELSE reposDir[r]],
                        lockJSON,
                        CreateWriteFile(SelfPid, trxLock),
                        [LastOf("get", PanicExit, TRUE, FALSE, lockJSON)
                           EXCEPT !.upgrade = upgrade]) :
                   finished \in SUBSET {r \in units : ~result[r].panic}}
          ELSE {Outcome(dirs1,
                        IF updatedLockJSON
                          THEN CollectResults(lock0, x[1], result, pi) ELSE lockJSON,
                        TrxAfterCommand(trxLock),
                        [LastOf("get", IF x[2] \/ failed # {} THEN 20 ELSE 0,
                                TRUE, updatedLockJSON, lockJSON)
                           EXCEPT !.ok = units \ failed,
                                  !.failed = failed,
                                  !.upgrade = upgrade,
                                  !.status = CollectStatus(lock0, x[1], result, pi,
                                                [r \in Repos |->
                                                   IF r \in failed THEN "failed"
                                                   ELSE "none"])]) :
                   x \in Orderings(units \ failed)
                         \X (IF failed = {} THEN BOOLEAN ELSE {FALSE})}

\* Every outcome of doGet for the repository list `list`.
GetOutcomes(list, upgrade) ==
    LET units == Dispatched(lockJSON, list)
    IN  {Outcome(reposDir, lockJSON, TrxAfterCommand(trxLock),        \* config.Read() fails
                 LastOf("get", 20, TRUE, FALSE, lockJSON))}
        \cup UNION {GetOutcomesOf(units, result, upgrade) :
                       result \in ResultFns(lockJSON, reposDir, units, upgrade)}

\* getCmd.doGet for the repository list `list` (Run returns 20 on an error;
\* x[2] above is the failure of doBuild).
doGet(list, upgrade) ==
    \E o \in GetOutcomes(list, upgrade) :
        /\ reposDir' = o.dirs
        /\ lockJSON' = o.lock
        /\ trxLock' = o.trx
        /\ last' = o.last

\* volt get [-u] {repository} ...
Get ==
    /\ steps < MaxSteps
    /\ steps' = steps + 1
    /\ \E list \in GetArgLists, upgrade \in BOOLEAN : doGet(list, upgrade)
    /\ UNCHANGED <<pc, seen, rdPid, diskTrx, memTrx>>
    /\ UNCHANGED <<buildVars, unitVars, pureVars, goVars>>

\* volt get -l [-u]: the list is every repository of lock.json
\* (getReposPathList); Run returns 13 on an empty list.
GetAll ==
    /\ steps < MaxSteps
    /\ steps' = steps + 1
    /\ lockJSON.repos # <<>>
    /\ \E upgrade \in BOOLEAN :
          doGet([i \in 1..Len(lockJSON.repos) |-> lockJSON.repos[i].path], upgrade)
    /\ UNCHANGED <<pc, seen, rdPid, diskTrx, memTrx>>
    /\ UNCHANGED <<buildVars, unitVars, pureVars, goVars>>

\* The user creates a static repository: mkdir $VOLTPATH/repos/r
\* (usage text of get, "Static repository").
UserMkStaticDir ==
    /\ steps < MaxSteps
    /\ steps' = steps + 1
    /\ \E r \in Repos :
          /\ reposDir[r] = NoDir
          /\ reposDir' = [reposDir EXCEPT ![r] = StaticDir]
    /\ last' = LastOf("mkdir", 0, FALSE, FALSE, lockJSON)
    /\ UNCHANGED <<trxLock, lockJSON>>
    /\ UNCHANGED <<pc, seen, rdPid, diskTrx, memTrx>>
    /\ UNCHANGED <<buildVars, unitVars, pureVars, goVars>>

-----------------------------------------------------------------------------
(* rm *)

\* The loop "Remove each repository" of rmCmd.doRemove (rm.go:133-157), from
\* the i-th repository on; failAt: the first repository whose plugconf file
\* os.Remove fails on, rmAllFailAt: the repository whose os.RemoveAll fails
\* (0: none). The result is the document, the source tree and the error.
RECURSIVE RemoveEach(_, _, _, _, _, _, _)
RemoveEach(lock, dirs, list, i, plugconf, failAt, rmAllFailAt) ==
    IF i > Len(list) THEN [lock |-> lock, dirs |-> dirs, err |-> FALSE]
    ELSE LET r       == list[i]
             \* rmCmd.removeRepos: nothing installed, or os.RemoveAll fails
             rmErr   == dirs[r] = NoDir \/ rmAllFailAt = i
             dirs1   == IF rmAllFailAt = i THEN dirs ELSE [dirs EXCEPT ![r] = NoDir]
             \* lockJSON.Repos.RemoveAllByPath
             byPathErr == ~HasEntry(lock, r)
             lock1   == [lock EXCEPT !.repos = RemoveAllByPath(@, r),
                                     !.profiles = RemoveAllReposPath(@, r)]
         IN  IF rmErr /\ ~plugconf THEN [lock |-> lock, dirs |-> dirs1, err |-> TRUE]
             ELSE IF plugconf /\ failAt = i THEN [lock |-> lock, dirs |-> dirs1, err |-> TRUE]
             ELSE IF byPathErr /\ ~plugconf THEN [lock |-> lock, dirs |-> dirs1, err |-> TRUE]
             ELSE RemoveEach(lock1, dirs1, list, i + 1, plugconf, failAt, rmAllFailAt)

\* Every outcome of rmCmd.doRemove and the rebuild that follows it.
RmOutcomes ==
    LET lock0 == [lockJSON EXCEPT !.trx_id = @ + 1]    \* lockJSON.TrxID++
        run(list, plugconf, failAt, rmAllFailAt, buildErr) ==
            LET res == RemoveEach(lock0, reposDir, list, 1, plugconf, failAt, rmAllFailAt)
            IN  Outcome(res.dirs,
                        IF res.err THEN lockJSON ELSE res.lock,
                        TrxAfterCommand(trxLock),
                        [LastOf("rm",
                                IF res.err THEN 11 ELSE IF buildErr THEN 12 ELSE 0,
                                TRUE, ~res.err, lockJSON)
                           EXCEPT !.ok = IF res.err THEN {} ELSE SeqToSet(list)])
    IN  \* plugconf.RdepsOf fails, or a repository is depended on
        {Outcome(reposDir, lockJSON, TrxAfterCommand(trxLock),
                 LastOf("rm", 11, TRUE, FALSE, lockJSON))}
        \cup UNION {UNION {{run(list, plugconf, failAt, rmAllFailAt, buildErr) :
                               failAt \in IF plugconf THEN 0..Len(list) ELSE {0},
                               rmAllFailAt \in {0} \cup {i \in 1..Len(list) :
                                                           reposDir[list[i]] # NoDir},
                               buildErr \in BOOLEAN} :
                           plugconf \in BOOLEAN} :
                       list \in ArgLists \ {<<>>}}

\* rmCmd.doRemove (Rm returns 11 on an error, 12 when the rebuild fails).
Rm ==
    /\ steps < MaxSteps
    /\ steps' = steps + 1
    /\ \E o \in RmOutcomes :
          /\ reposDir' = o.dirs
          /\ lockJSON' = o.lock
          /\ trxLock' = o.trx
          /\ last' = o.last
    /\ UNCHANGED <<pc, seen, rdPid, diskTrx, memTrx>>
    /\ UNCHANGED <<buildVars, unitVars, pureVars, goVars>>

\* migrateCmd.doMigrate: read, begin the transaction, write the document back.
Migrate ==
    /\ steps < MaxSteps
    /\ steps' = steps + 1
    /\ last' = LastOf("migrate", 0, TRUE, TRUE, lockJSON)
    /\ trxLock' = TrxAfterCommand(trxLock)
    /\ UNCHANGED <<lockJSON, reposDir>>
    /\ UNCHANGED <<pc, seen, rdPid, diskTrx, memTrx>>
    /\ UNCHANGED <<buildVars, unitVars, pureVars, goVars>>

-----------------------------------------------------------------------------
(* profile *)

\* A command that returned before transaction.Create.
ReturnEarly(cmd, ret) ==
    /\ last' = LastOf(cmd, ret, FALSE, FALSE, lockJSON)
    /\ UNCHANGED <<lockJSON, trxLock>>

\* doSet, doNew, doDestroy without a profile name: Usage(), logger.Error and
\* `return nil`, on which Profile returns 0.
ReturnNoName(cmd) ==
    /\ last' = [LastOf(cmd, 0, FALSE, FALSE, lockJSON) EXCEPT !.logged = TRUE]
    /\ UNCHANGED <<lockJSON, trxLock>>

\* The arguments of profile set, new, destroy: a profile name or nothing.
NameArgs == {<<>>} \cup {<<name>> : name \in ProfileNames}

\* A command that began its transaction and returned ret, leaving lock1 on
\* disk when wrote.
ReturnAfterCreate(cmd, ret, wrote, lock1) ==
    /\ last' = LastOf(cmd, ret, TRUE, wrote, lockJSON)
    /\ lockJSON' = IF wrote THEN lock1 ELSE lockJSON
    /\ trxLock' = TrxAfterCommand(trxLock)

\* profileCmd.doSet (Profile returns 11 on an error).
ProfileSet ==
    /\ steps < MaxSteps
    /\ steps' = steps + 1
    /\ \E args \in NameArgs :
          IF args = <<>> THEN ReturnNoName("profile")
          ELSE IF lockJSON.current_profile_name = args[1]
            THEN ReturnEarly("profile", 11)
          ELSE IF FindByName(lockJSON.profiles, args[1]) = 0
            THEN ReturnAfterCreate("profile", 11, FALSE, lockJSON)
          ELSE \E buildErr \in BOOLEAN :
                 ReturnAfterCreate("profile", IF buildErr THEN 11 ELSE 0, TRUE,
                                   [lockJSON EXCEPT !.current_profile_name = args[1]])
    /\ UNCHANGED reposDir
    /\ UNCHANGED <<pc, seen, rdPid, diskTrx, memTrx>>
    /\ UNCHANGED <<buildVars, unitVars, pureVars, goVars>>

\* profileCmd.doNew.
ProfileNew ==
    /\ steps < MaxSteps
    /\ steps' = steps + 1
    /\ \E args \in NameArgs :
          IF args = <<>> THEN ReturnNoName("profile")
          ELSE IF FindByName(lockJSON.profiles, args[1]) # 0
            THEN ReturnEarly("profile", 11)
          ELSE ReturnAfterCreate("profile", 0, TRUE,
                   [lockJSON EXCEPT !.profiles =
                       Append(@, [name |-> args[1], repos_path |-> <<>>,
                                  use_vimrc |-> TRUE, use_gvimrc |-> TRUE])])
    /\ UNCHANGED reposDir
    /\ UNCHANGED <<pc, seen, rdPid, diskTrx, memTrx>>
    /\ UNCHANGED <<buildVars, unitVars, pureVars, goVars>>

\* doDestroy without its check of the current profile.
isCurrentProfileNoCheck(lock, profileName) == FALSE

\* doDestroy, "Return error if current profile matches profileName".
isCurrentProfile(lock, profileName) == lock.current_profile_name = profileName

\* profileCmd.doDestroy.
ProfileDestroy ==
    /\ steps < MaxSteps
    /\ steps' = steps + 1
    /\ \E args \in NameArgs :
          LET profileName == IF args = <<>> THEN "" ELSE args[1]
              index == FindByName(lockJSON.profiles, profileName)
          IN  IF args = <<>> THEN ReturnNoName("profile")
              ELSE IF isCurrentProfile(lockJSON, profileName) \/ index = 0
                THEN ReturnEarly("profile", 11)
              ELSE ReturnAfterCreate("profile", 0, TRUE,
                       [lockJSON EXCEPT !.profiles = RemoveAt(@, index)])
    /\ UNCHANGED reposDir
    /\ UNCHANGED <<pc, seen, rdPid, diskTrx, memTrx>>
    /\ UNCHANGED <<buildVars, unitVars, pureVars, goVars>>

\* profileCmd.parseAddArgs, the check "Validate if all repositories exist in
\* repos[]": TRUE when it returns an error.
parseAddArgsNoCheck(lock, reposPathList) == FALSE
parseAddArgsErr(lock, reposPathList) ==
    \E i \in 1..Len(reposPathList) : FindByPath(lock.repos, reposPathList[i]) = 0

\* The modifyProfile of doAdd: append the repositories the profile lacks.
RECURSIVE AddEach(_, _)
AddEach(reposPath, list) ==
    IF list = <<>> THEN reposPath
    ELSE AddEach(IF Contains(reposPath, Head(list)) THEN reposPath
                 ELSE Append(reposPath, Head(list)), Tail(list))

\* The modifyProfile of doRm: remove the repositories the profile has.
RECURSIVE RmEach(_, _)
RmEach(reposPath, list) ==
    IF list = <<>> THEN reposPath
    ELSE LET index == IF Contains(reposPath, Head(list))
                        THEN CHOOSE i \in 1..Len(reposPath) :
                                 /\ reposPath[i] = Head(list)
                                 /\ \A j \in 1..(i - 1) : reposPath[j] # Head(list)
                        ELSE 0
         IN  RmEach(IF index > 0 THEN RemoveAt(reposPath, index) ELSE reposPath, Tail(list))

\* profileCmd.doAdd / doRm with profileCmd.transactProfile; profileArg is a
\* profile name or "-current"; subCmd is "add" or "rm".
doAddOrRm(cmd, profileArg, reposPathList, subCmd) ==
    LET profileName == IF profileArg = "-current"
                         THEN lockJSON.current_profile_name ELSE profileArg
        pi          == FindByName(lockJSON.profiles, profileName)
        newPath     == IF subCmd = "add"
                         THEN AddEach(lockJSON.profiles[pi].repos_path, reposPathList)
                         ELSE RmEach(lockJSON.profiles[pi].repos_path, reposPathList)
        changed     == newPath # lockJSON.profiles[pi].repos_path
    IN  IF parseAddArgsErr(lockJSON, reposPathList) \/ pi = 0
          THEN ReturnEarly(cmd, 11)
        ELSE \E buildErr \in IF changed THEN BOOLEAN ELSE {FALSE} :
               ReturnAfterCreate(cmd, IF buildErr THEN 11 ELSE 0, TRUE,
                   [lockJSON EXCEPT !.profiles[pi].repos_path = newPath])

ProfileArgs == ProfileNames \cup {"-current"}
RcNames     == {"vimrc"}    \* doUse treats "gvimrc" the same way, on use_gvimrc

\* volt profile add
ProfileAdd ==
    /\ steps < MaxSteps
    /\ steps' = steps + 1
    /\ \E profileArg \in ProfileArgs, list \in ArgLists :
          doAddOrRm("profile", profileArg, list, "add")
    /\ UNCHANGED reposDir
    /\ UNCHANGED <<pc, seen, rdPid, diskTrx, memTrx>>
    /\ UNCHANGED <<buildVars, unitVars, pureVars, goVars>>

\* volt profile rm
ProfileRm ==
    /\ steps < MaxSteps
    /\ steps' = steps + 1
    /\ \E profileArg \in ProfileArgs, list \in ArgLists :
          doAddOrRm("profile", profileArg, list, "rm")
    /\ UNCHANGED reposDir
    /\ UNCHANGED <<pc, seen, rdPid, diskTrx, memTrx>>
    /\ UNCHANGED <<buildVars, unitVars, pureVars, goVars>>

\* volt enable: profile add -current
Enable ==
    /\ steps < MaxSteps
    /\ steps' = steps + 1
    /\ \E list \in ArgLists \ {<<>>} :
          doAddOrRm("profile", "-current", list, "add")
    /\ UNCHANGED reposDir
    /\ UNCHANGED <<pc, seen, rdPid, diskTrx, memTrx>>
    /\ UNCHANGED <<buildVars, unitVars, pureVars, goVars>>

\* volt disable (gateway/disable.go): profile rm -current
Disable ==
    /\ steps < MaxSteps
    /\ steps' = steps + 1
    /\ \E list \in ArgLists \ {<<>>} :
          doAddOrRm("profile", "-current", list, "rm")
    /\ UNCHANGED reposDir
    /\ UNCHANGED <<pc, seen, rdPid, diskTrx, memTrx>>
    /\ UNCHANGED <<buildVars, unitVars, pureVars, goVars>>

\* profileCmd.doUse: set use_vimrc or use_gvimrc of a profile.
ProfileUse ==
    /\ steps < MaxSteps
    /\ steps' = steps + 1
    /\ \E profileArg \in ProfileArgs, rcName \in RcNames, value \in BOOLEAN :
          LET profileName == IF profileArg = "-current"
                               THEN lockJSON.current_profile_name ELSE profileArg
              pi == FindByName(lockJSON.profiles, profileName)
              changed == IF rcName = "vimrc"
                           THEN lockJSON.profiles[pi].use_vimrc # value
                           ELSE lockJSON.profiles[pi].use_gvimrc # value
              lock1 == IF rcName = "vimrc"
                         THEN [lockJSON EXCEPT !.profiles[pi].use_vimrc = value]
                         ELSE [lockJSON EXCEPT !.profiles[pi].use_gvimrc = value]
          IN  IF pi = 0 THEN ReturnEarly("profile", 11)
              ELSE \E buildErr \in IF changed THEN BOOLEAN ELSE {FALSE} :
                     ReturnAfterCreate("profile", IF buildErr THEN 11 ELSE 0,
                                       changed, lock1)
    /\ UNCHANGED reposDir
    /\ UNCHANGED <<pc, seen, rdPid, diskTrx, memTrx>>
    /\ UNCHANGED <<buildVars, unitVars, pureVars, goVars>>

LockInit ==
    /\ lockJSON = InitialLockJSON
    /\ reposDir = [r \in Repos |-> NoDir]
    /\ last = LastOf("none", 0, FALSE, FALSE, InitialLockJSON)
    /\ steps = 0

LockNext ==
    \/ Get \/ GetAll \/ UserMkStaticDir \/ Rm \/ Migrate
    \/ ProfileSet \/ ProfileNew \/ ProfileDestroy
    \/ ProfileAdd \/ ProfileRm \/ Enable \/ Disable \/ ProfileUse

-----------------------------------------------------------------------------
(* The build engine *)

Types      == {"git", "static", "other"}    \* lockjson.ReposType; "other" is invalid
NoDst      == "none"       \* pack/volt/start/<r> does not exist
Partial    == "partial"    \* some of the files of the source
WtCopy     == "wt"         \* the files of the (dirty) working tree
StaticCopy == "static"     \* the files of the static source directory
Link       == "link"       \* a symlink to repos/<r>
                           \* a hash h: the files of commit h
\* The manifest has no entry for the repo (buildRepos == nil).
NoEntry    == [present |-> FALSE, version |-> "", files |-> FALSE,
               dirty_worktree |-> FALSE]
NoBuild    == [strategy |-> "none", ret |-> "none", wrote |-> FALSE, full |-> FALSE,
               unit |-> [r \in Repos |-> "none"], unchanged |-> Repos,
               received |-> {}, sent |-> 0, awaited |-> 0, skippedTouched |-> {}]

\* BaseBuilder.getCurrentReposList: the repos of the current profile, in the
\* order of lock.json.
LockOrder == CHOOSE s \in Orderings(Repos) : TRUE
Position(r) == CHOOSE i \in 1..Len(LockOrder) : LockOrder[i] = r
getCurrentReposList == {r \in Repos : bLock[r].active}

\* What a unit leaves: kind is "skip" (not dispatched), "preerr" (an error
\* found before the dispatch), "err", "ok", or "hang" (the unit never sends).
UnitResult(kind, d, files) == [kind |-> kind, dst |-> d, files |-> files]

\* The steps of a copy unit that can fail.
UnitOutcomes == {"ok", "rmErr", "lookupErr", "copyErr", "writeErr", "helptagsErr"}

\* A build runs one unit for each repo of the list.
Cost(active) == IF active = {} THEN 1 ELSE Cardinality(active)

\* A build that returned an error before it started a unit (no vim in PATH,
\* lock.json unreadable, the vimrc or the directories cannot be installed).
BuildReturnsEarly ==
    /\ lastBuild' = [NoBuild EXCEPT !.strategy = strategy, !.ret = "err"]
    /\ UNCHANGED <<dst, systemDir, buildInfo, touched, worktree>>

\* copyBuilder.hasChangedGitRepos
hasChangedGitRepos(repos, buildRepos, isDirty) ==
    \/ ~buildRepos.present
    \/ repos.version # buildRepos.version
    \/ buildRepos.dirty_worktree \/ isDirty

\* copyBuilder.updateBareGitRepos: the files of the locked commit are written
\* under dst; the errors of os.MkdirAll and ioutil.WriteFile are dropped.
updateBareGitRepos(repos, d, o) ==
    IF o = "lookupErr" THEN UnitResult("err", d, FALSE)
    ELSE IF o = "copyErr" THEN UnitResult("err", Partial, FALSE)
    ELSE IF o = "writeErr" THEN UnitResult("ok", Partial, TRUE)
    ELSE IF o = "helptagsErr" THEN UnitResult("err", repos.version, FALSE)
    ELSE UnitResult("ok", repos.version, TRUE)

\* copyBuilder.updateNonBareGitRepos: the files of the working tree are
\* linked or copied under dst.
updateNonBareGitRepos(d, o) ==
    IF o = "lookupErr" THEN UnitResult("err", d, FALSE)
    ELSE IF o \in {"copyErr", "writeErr"} THEN UnitResult("err", Partial, FALSE)
    ELSE IF o = "helptagsErr" THEN UnitResult("err", WtCopy, FALSE)
    ELSE UnitResult("ok", WtCopy, FALSE)

\* copyBuilder.updateGitRepos: os.RemoveAll(dst), then the copy.
updateGitRepos(repos, d, copyFromGitObjects, o) ==
    IF o = "rmErr" THEN UnitResult("err", d, FALSE)
    ELSE IF copyFromGitObjects THEN updateBareGitRepos(repos, NoDst, o)
    ELSE updateNonBareGitRepos(NoDst, o)

\* copyBuilder.updateStaticRepos
updateStaticRepos(d, o) ==
    IF o = "rmErr" THEN UnitResult("err", d, FALSE)
    ELSE IF o = "lookupErr" THEN UnitResult("err", NoDst, FALSE)
    ELSE IF o \in {"copyErr", "writeErr"} THEN UnitResult("err", Partial, FALSE)
    ELSE IF o = "helptagsErr" THEN UnitResult("err", StaticCopy, FALSE)
    ELSE UnitResult("ok", StaticCopy, FALSE)

\* copyBuilder.copyReposGit: every result of the unit of a git repo whose
\* working tree is wt.
copyReposGit(repos, wt, d, buildRepos) ==
    LET isClean == wt = "clean"           \* r.Worktree() fails on a bare repo
        copyFromGitObjects == wt = "bare" \/ isClean
    IN  {UnitResult("preerr", d, FALSE)} \cup
        (IF hasChangedGitRepos(repos, buildRepos, ~isClean)
           THEN {updateGitRepos(repos, d, copyFromGitObjects, o) : o \in UnitOutcomes}
           ELSE {UnitResult("skip", d, FALSE)})

\* copyBuilder.hasChangedStaticRepos: the version of the manifest entry is
\* the time of the build that wrote it; wt is "dirty" when a file of the
\* source is newer than that.
hasChangedStaticRepos(buildRepos, wt) ==
    \/ ~buildRepos.present
    \/ buildRepos.version # "time"
    \/ wt = "dirty"

\* copyBuilder.copyReposStatic
copyReposStatic(wt, d, buildRepos) ==
    IF hasChangedStaticRepos(buildRepos, wt)
      THEN {updateStaticRepos(d, o) : o \in UnitOutcomes}
      ELSE {UnitResult("skip", d, FALSE)}

\* One iteration of the loop of copyBuilder.copyReposList.
CopyUnitResults(r, buildReposMap) ==
    IF bLock[r].type = "git"
      THEN copyReposGit(bLock[r], worktree[r], dst[r], buildReposMap[r])
    ELSE IF bLock[r].type = "static"
      THEN copyReposStatic(worktree[r], dst[r], buildReposMap[r])
    ELSE {UnitResult("preerr", dst[r], FALSE)}

\* The sets of results waitCopyRepos can receive: the first copyCount results
\* on copyDone, where the error of a repo found before its dispatch (P) was
\* sent before every unit after it in the list was started (D: dispatched).
Arrivals(P, D) ==
    {s \in Orderings(P \cup D) :
        \A i, j \in 1..Len(s) :
            (s[i] \in D /\ s[j] \in P /\ Position(s[j]) < Position(s[i])) => j < i}
Received(P, D) == {SeqToSet(SubSeq(s, 1, Cardinality(D))) : s \in Arrivals(P, D)}

\* copyBuilder.constructBuildInfo: the entry of a successful unit.
constructBuildInfo(repos, result) ==
    [present |-> TRUE,
     version |-> IF repos.type = "git" THEN repos.version ELSE "time",
     files |-> result.files, dirty_worktree |-> FALSE]

\* Repos whose dst a build changed without a manifest that says so.
TouchedAfter(wrote, recorded, dst1) ==
    IF wrote THEN touched \ recorded
    ELSE touched \cup {r \in Repos : dst1[r] # dst[r]}

\* What follows the units: "ok", or plugconf.GenerateBundlePlugconf fails
\* ("genErr"), or a later step does (the ftdetect files, buildInfo.Write).
PostPass == {"ok", "genErr", "err"}

\* waitRemoveRepos with the errors of the removals dropped.
waitRemoveReposDropped(failedRm, sysRmErr) == FALSE

\* copyBuilder.waitRemoveRepos: the error of the removals.
waitRemoveRepos(failedRm, sysRmErr) == failedRm # {} \/ sysRmErr

\* copyBuilder.Build, called with the map of the manifest entries (empty on
\* a full build).
CopyBuild ==
    /\ strategy = "copy"
    /\ bsteps + Cost(getCurrentReposList) <= MaxUnits
    /\ bsteps' = bsteps + Cost(getCurrentReposList)
    /\ \/ BuildReturnsEarly
       \/ \E full \in IF \E r \in Repos : buildInfo[r].present THEN BOOLEAN ELSE {FALSE} :
         LET active  == getCurrentReposList
             buildReposMap == [r \in Repos |-> IF full THEN NoEntry ELSE buildInfo[r]]
             each    == [r \in active |-> CopyUnitResults(r, buildReposMap)]
             \* removeReposList: the directories under the runtime that are
             \* not of a repo of the list, which includes "system"
             orphans == {r \in Repos \ active : dst[r] # NoDst}
         IN  \E res \in {f \in [active -> UNION {each[r] : r \in active}] :
                            \A r \in active : f[r] \in each[r]},
                failedRm \in SUBSET orphans,
                sysRmErr \in (IF systemDir THEN BOOLEAN ELSE {FALSE}) :
               LET P == {r \in active : res[r].kind = "preerr"}
                   D == {r \in active : res[r].kind \in {"ok", "err"}}
               IN  \E received \in Received(P, D) :
                     LET copyErr   == \E r \in received : res[r].kind # "ok"
                         recorded  == {r \in received : res[r].kind = "ok"}
                         removed   == orphans \ failedRm
                         failed    == copyErr \/ waitRemoveRepos(failedRm, sysRmErr)
                         modified  == \/ recorded # {} \/ removed # {}
                                      \/ systemDir /\ ~sysRmErr
                     IN  \* the bundled plugconf, the ftdetect files and
                         \* buildInfo.Write() can fail as well
                         \E post \in IF failed THEN {"ok"} ELSE PostPass :
                           LET wrote == ~failed /\ post = "ok" /\ modified
                               dst1  == [r \in Repos |->
                                           IF r \in active THEN res[r].dst
                                           ELSE IF r \in removed THEN NoDst ELSE dst[r]]
                           IN  /\ dst' = dst1
                               /\ systemDir' =
                                    IF failed THEN systemDir /\ sysRmErr
                                    ELSE post # "genErr"
                               /\ buildInfo' =
                                    IF wrote
                                      THEN [r \in Repos |->
                                              IF r \in recorded
                                                THEN constructBuildInfo(bLock[r], res[r])
                                              ELSE IF r \in removed THEN NoEntry
                                              ELSE buildInfo[r]]
                                      ELSE buildInfo
                               \* the entry of a static repo holds time.Now()
                               /\ worktree' =
                                    [r \in Repos |->
                                       IF wrote /\ r \in recorded /\ bLock[r].type = "static"
                                         THEN "clean" ELSE worktree[r]]
                               /\ touched' = TouchedAfter(wrote, recorded, dst1)
                               /\ lastBuild' =
                                    [strategy |-> "copy",
                                     ret |-> IF failed \/ post # "ok" THEN "err" ELSE "ok",
                                     wrote |-> wrote, full |-> full,
                                     unit |-> [r \in Repos |->
                                                 IF r \in active THEN res[r].kind ELSE "none"],
                                     unchanged |-> {r \in Repos : dst1[r] = dst[r]},
                                     received |-> received,
                                     sent |-> Cardinality(P \cup D),
                                     awaited |-> Cardinality(D),
                                     skippedTouched |->
                                         {r \in touched \cap active : res[r].kind = "skip"}]
    /\ UNCHANGED <<strategy, bLock>>
    /\ UNCHANGED <<trxVars, lockVars, unitVars, pureVars, goVars>>

\* symlinkBuilder.symlink, helptags and linkFTDFiles of installRepos.
LinkResults(d) ==
    {UnitResult("err", d, FALSE),        \* os.Symlink fails
     UnitResult("err", Link, FALSE),     \* helptags or linkFTDFiles fails
     UnitResult("ok", Link, FALSE)}

\* symlinkBuilder.installRepos: every result of the unit. On a bare repo it
\* calls updateBareGitRepos on a channel nobody receives from yet, and the
\* send blocks: the unit never sends its result.
installRepos(repos, wt, d) ==
    IF repos.type = "git"
      THEN {UnitResult("err", d, FALSE)} \cup    \* GetHEAD, PlainOpen, Config
           (IF wt = "bare"
              THEN {UnitResult("hang", updateBareGitRepos(repos, d, o).dst, FALSE) :
                       o \in UnitOutcomes \ {"rmErr"}}
              ELSE LinkResults(d))
    ELSE LinkResults(d)

\* symlinkBuilder.Build
SymlinkBuild ==
    /\ strategy = "symlink"
    /\ bsteps + Cost(getCurrentReposList) <= MaxUnits
    /\ bsteps' = bsteps + Cost(getCurrentReposList)
    /\ \/ BuildReturnsEarly
       \/ LET active == getCurrentReposList
               each   == [r \in active |-> installRepos(bLock[r], worktree[r], dst[r])]
           IN  \E res \in {f \in [active -> UNION {each[r] : r \in active}] :
                              \A r \in active : f[r] \in each[r]} :
                 LET senders == {r \in active : res[r].kind # "hang"}
                     anyErr  == \E r \in senders : res[r].kind = "err"
                     hang    == ~anyErr /\ senders # active
                 IN  \E post \in IF anyErr \/ hang THEN {"ok"} ELSE PostPass :
                       LET wrote == ~anyErr /\ ~hang /\ post = "ok"
                           dst1  == [r \in Repos |-> IF r \in active THEN res[r].dst ELSE dst[r]]
                       IN  /\ dst' = dst1
                           /\ systemDir' =
                                IF anyErr \/ hang \/ post = "genErr" THEN systemDir
                                ELSE TRUE
                           /\ buildInfo' =
                                IF wrote
                                  THEN [r \in Repos |->
                                          IF r \in active
                                            THEN [present |-> TRUE,
                                                  version |-> bLock[r].version,
                                                  files |-> FALSE, dirty_worktree |-> FALSE]
                                            ELSE NoEntry]
                                  ELSE buildInfo
                           /\ touched' = TouchedAfter(wrote, active, dst1)
                           /\ UNCHANGED worktree
                           /\ lastBuild' =
                                [strategy |-> "symlink",
                                 \* "return err" (symlink.go:82) returns the nil err
                                 ret |-> IF anyErr THEN "ok" ELSE IF hang THEN "hang"
                                         ELSE IF post # "ok" THEN "err" ELSE "ok",
                                 wrote |-> wrote, full |-> FALSE,
                                 unit |-> [r \in Repos |->
                                             IF r \in active THEN res[r].kind ELSE "none"],
                                 unchanged |-> {r \in Repos : dst1[r] = dst[r]},
                                 received |-> {},
                                 sent |-> Cardinality(senders),
                                 awaited |-> Cardinality(active),
                                 skippedTouched |-> {}]
    /\ UNCHANGED <<strategy, bLock>>
    /\ UNCHANGED <<trxVars, lockVars, unitVars, pureVars, goVars>>

\* What happens between two builds.
EnvStep ==
    /\ bsteps < MaxUnits
    /\ bsteps' = bsteps + 1
    /\ lastBuild' = NoBuild
    /\ UNCHANGED <<strategy, dst, systemDir, buildInfo, touched>>
    /\ UNCHANGED <<trxVars, lockVars, unitVars, pureVars, goVars>>

\* The user changes a file of the working tree of r (or of the directory of
\* a static repo).
MakeDirty(r) ==
    /\ bLock[r].type \in {"git", "static"} /\ worktree[r] = "clean"
    /\ worktree' = [worktree EXCEPT ![r] = "dirty"]
    /\ UNCHANGED bLock
    /\ EnvStep

\* The user reverts the working tree of r.
MakeClean(r) ==
    /\ bLock[r].type = "git" /\ worktree[r] = "dirty"
    /\ worktree' = [worktree EXCEPT ![r] = "clean"]
    /\ UNCHANGED bLock
    /\ EnvStep

\* get -u moved r to a new commit (updateReposVersion).
UpgradeRepo(r) ==
    /\ bLock[r].type = "git" /\ bLock[r].version = "h1"
    /\ bLock' = [bLock EXCEPT ![r].version = "h2"]
    /\ UNCHANGED worktree
    /\ EnvStep

\* profile rm / disable / rm took r out of the current profile.
DisableRepo(r) ==
    /\ bLock[r].active
    /\ bLock' = [bLock EXCEPT ![r].active = FALSE]
    /\ UNCHANGED worktree
    /\ EnvStep

\* No build engine: the state of the build variables in SpecTrx and SpecLock.
BuildIdle ==
    /\ strategy = "symlink"       \* the default of config.go
    /\ bLock = [r \in Repos |-> [type |-> "git", version |-> "h1", active |-> TRUE]]
    /\ worktree = [r \in Repos |-> "clean"]
    /\ dst = [r \in Repos |-> NoDst]
    /\ systemDir = FALSE
    /\ buildInfo = [r \in Repos |-> NoEntry]
    /\ lastBuild = NoBuild
    /\ touched = {}
    /\ bsteps = 0

\* Before the first build: the repos of the current profile are installed,
\* nothing is materialized and there is no manifest.
BuildInit ==
    /\ strategy \in {"symlink", "copy"}
    /\ bLock \in [Repos -> [type : Types, version : {"h1"}, active : BOOLEAN]]
    /\ worktree \in [Repos -> {"clean", "dirty", "bare"}]
    /\ \A r \in Repos : bLock[r].type # "git" => worktree[r] = "clean"
    /\ bLock[LockOrder[1]].active
    /\ \A r \in Repos : ~bLock[r].active => bLock[r].type = "git" /\ worktree[r] = "clean"
    /\ dst = [r \in Repos |-> NoDst]
    /\ systemDir = FALSE
    /\ buildInfo = [r \in Repos |-> NoEntry]
    /\ lastBuild = NoBuild
    /\ touched = {}
    /\ bsteps = 0

BuildNext ==
    \/ CopyBuild
    \/ SymlinkBuild
    \/ \E r \in Repos : MakeDirty(r) \/ MakeClean(r) \/ UpgradeRepo(r) \/ DisableRepo(r)

-----------------------------------------------------------------------------
(* get: the acquisition units of one command, step by step *)

\* No get is running.
\* No function is being checked on its own.
NotCalled == "none"
PureIdle == input = NotCalled /\ output = NotCalled

\* No build is running step by step.
NoWalk == [by |-> 0, cur |-> 0, st |-> "none"]
TreeIdle == isDir = <<>> /\ others = <<>> /\ walk = NoWalk
GoIdle == bpc = <<>> /\ TreeIdle

UnitIdle ==
    /\ getArgs = [list |-> <<>>, upgrade |-> FALSE, createPlugconf |-> FALSE]
    /\ unit = <<>>

\* A unit the dispatch loop of doGet has just started: cloned says that the
\* unit's PlainClone succeeded, pluginOk that installPlugin sent a result
\* without an error.
NewUnit == [pc |-> "new", cloned |-> FALSE, pluginOk |-> FALSE, err |-> FALSE]

\* lock.json with a git entry, in the profile default, for every repository
\* installed under repos/.
InstalledLock(dirs) ==
    LET s == SelectSeq(LockOrder, LAMBDA r : dirs[r] # NoDir)
    IN  [trx_id |-> 1, current_profile_name |-> "default",
         repos |-> [i \in 1..Len(s) |->
                      [type |-> "git", trx_id |-> 1, path |-> s[i], version |-> dirs[s[i]]]],
         profiles |-> <<[name |-> "default", repos_path |-> s,
                         use_vimrc |-> TRUE, use_gvimrc |-> TRUE]>>]

UnitIds == 1..MaxArgs          \* a unit for each repository of the list
ReposPathOf(i) == getArgs.list[i]
Goto(i, to) == unit' = [unit EXCEPT ![i].pc = to]
AllDead == [i \in DOMAIN unit |-> [unit[i] EXCEPT !.pc = "dead"]]
\* The unit is about to write, or is writing, under its source directory.
WorkPcs == {"clone", "cloning", "upgrade", "rollback", "rollbackPanic"}

\* What the units leave alone: the sentinel and lock.json of the command,
\* and everything outside the get.
UnitFrame ==
    /\ UNCHANGED <<trxLock, lockJSON, last, steps>>
    /\ UNCHANGED <<pc, seen, rdPid, diskTrx, memTrx>>
    /\ UNCHANGED <<buildVars, pureVars, goVars>>

\* installPlugin, lines 629-672: upgrade or install, the HEAD before the
\* upgrade, and the check of repos under -u.
UStart(i) ==
    /\ i \in DOMAIN unit
    /\ unit[i].pc = "new"
    /\ IF getArgs.upgrade /\ reposDir[ReposPathOf(i)] # NoDir
         THEN \/ Goto(i, "rollback")                        \* GetHEAD fails
              \/ IF HasEntry(lockJSON, ReposPathOf(i))
                   THEN Goto(i, "upgrade")
                   ELSE unit' = [unit EXCEPT ![i].pc = "done", ![i].err = TRUE]
         ELSE IF reposDir[ReposPathOf(i)] = NoDir
                THEN Goto(i, "fetch")
                ELSE Goto(i, "head")
    /\ UNCHANGED <<reposDir, getArgs>>
    /\ UnitFrame

\* upgradePlugin: fetch or pull in the source directory.
UUpgrade(i) ==
    /\ i \in DOMAIN unit
    /\ unit[i].pc = "upgrade"
    /\ \/ Goto(i, "head") /\ UNCHANGED reposDir              \* NoErrAlreadyUpToDate
       \/ /\ reposDir[ReposPathOf(i)] \in Hashes
          /\ reposDir' = [reposDir EXCEPT ![ReposPathOf(i)] = "h2"]
          /\ Goto(i, "head")
       \/ Goto(i, "rollbackPanic") /\ UNCHANGED reposDir
    /\ UNCHANGED getArgs
    /\ UnitFrame

\* fetchPlugin, lines 871-874: errRepoExists when the directory exists.
UFetchPlugin(i) ==
    /\ i \in DOMAIN unit
    /\ unit[i].pc = "fetch"
    /\ IF reposDir[ReposPathOf(i)] # NoDir THEN Goto(i, "head") ELSE Goto(i, "clone")
    /\ UNCHANGED <<reposDir, getArgs>>
    /\ UnitFrame

\* fetchPlugin, lines 881-890: git.PlainClone(fullpath) begins to write the
\* repository at its final place. On a directory another unit is writing it
\* fails or, when the other has created nothing yet, goes on.
UPlainClone(i) ==
    /\ i \in DOMAIN unit
    /\ unit[i].pc = "clone"
    /\ \/ /\ reposDir[ReposPathOf(i)] \in {NoDir, PartialClone}
          /\ reposDir' = [reposDir EXCEPT ![ReposPathOf(i)] = PartialClone]
          /\ Goto(i, "cloning")
       \/ /\ reposDir[ReposPathOf(i)] # NoDir
          /\ Goto(i, "rollback")
          /\ UNCHANGED reposDir
    /\ UNCHANGED getArgs
    /\ UnitFrame

\* fetchPlugin, lines 887-896: the clone ends, with or without an error
\* (SetUpstreamBranch can fail as well).
UCloneDone(i) ==
    /\ i \in DOMAIN unit
    /\ unit[i].pc = "cloning"
    /\ \/ /\ reposDir[ReposPathOf(i)] # NoDir
          /\ \E h \in Hashes : reposDir' = [reposDir EXCEPT ![ReposPathOf(i)] = h]
          /\ unit' = [unit EXCEPT ![i].pc = "head", ![i].cloned = TRUE]
       \/ Goto(i, "rollback") /\ UNCHANGED reposDir
    /\ UNCHANGED getArgs
    /\ UnitFrame

\* installPlugin, lines 737-778, and getParallel: detectReposType, the HEAD
\* after the operation, the result of the plugin step.
UHead(i) ==
    /\ i \in DOMAIN unit
    /\ unit[i].pc = "head"
    /\ \/ unit' = [unit EXCEPT ![i].pluginOk = TRUE,
                               ![i].pc = IF getArgs.createPlugconf THEN "plugconf" ELSE "done"]
       \/ /\ reposDir[ReposPathOf(i)] \in Hashes \cup {PartialClone}
          /\ Goto(i, "rollback")                             \* GetHEAD fails
    /\ UNCHANGED <<reposDir, getArgs>>
    /\ UnitFrame

\* installPlugconf: fetchPlugconf. A template that cannot be fetched is
\* replaced by the skeleton; GenPlugconfByTemplate and ioutil.WriteFile can
\* fail.
UPlugconf(i) ==
    /\ i \in DOMAIN unit
    /\ unit[i].pc = "plugconf"
    /\ \/ Goto(i, "done")
       \/ Goto(i, "rollback")
    /\ UNCHANGED <<reposDir, getArgs>>
    /\ UnitFrame

\* rollbackRepos and the failed result: os.RemoveAll removes the directory,
\* or fails and leaves it.
URollback(i) ==
    /\ i \in DOMAIN unit
    /\ unit[i].pc = "rollback"
    /\ \/ reposDir' = [reposDir EXCEPT ![ReposPathOf(i)] = rollbackRepos(@)]
       \/ reposDir[ReposPathOf(i)] # NoDir /\ UNCHANGED reposDir
    /\ unit' = [unit EXCEPT ![i].pc = "done", ![i].err = TRUE]
    /\ UNCHANGED getArgs
    /\ UnitFrame

\* installPlugin, lines 679-697: the rollback after a failed upgradePlugin.
\* err is assigned the result of rollbackRepos and the status calls
\* err.Error(): when the rollback succeeded err is nil, the goroutine panics
\* and the process dies.
URollbackPanic(i) ==
    /\ i \in DOMAIN unit
    /\ unit[i].pc = "rollbackPanic"
    /\ \/ /\ reposDir' = [reposDir EXCEPT ![ReposPathOf(i)] = rollbackRepos(@)]
          /\ unit' = AllDead
       \/ /\ reposDir[ReposPathOf(i)] # NoDir
          /\ UNCHANGED reposDir
          /\ unit' = [unit EXCEPT ![i].pc = "done", ![i].err = TRUE]
    /\ UNCHANGED getArgs
    /\ UnitFrame

\* doGet, lines 521-539: the wait loop takes a result from the done channel
\* (buffered for every repository of the list, so that no send blocks).
UReceive(i) ==
    /\ i \in DOMAIN unit
    /\ unit[i].pc = "done"
    /\ Goto(i, "received")
    /\ UNCHANGED <<reposDir, getArgs>>
    /\ UnitFrame

\* The process is killed while units run.
Kill ==
    /\ \E i \in DOMAIN unit : unit[i].pc \notin {"done", "dead"}
    /\ unit' = AllDead
    /\ UNCHANGED <<reposDir, getArgs>>
    /\ UnitFrame

\* doGet has begun its transaction and started a unit for each repository
\* of the list (each has no entry in lock.json, or a git entry).
UnitsInit ==
    /\ trxLock = SelfPid
    /\ pc = [p \in Procs |-> "idle"]
    /\ seen = [p \in Procs |-> NoFile]
    /\ rdPid = [p \in Procs |-> NoFile]
    /\ diskTrx = 0
    /\ memTrx = [p \in Procs |-> 0]
    /\ reposDir \in [Repos -> {NoDir, "h1"}]
    /\ lockJSON = InstalledLock(reposDir)
    /\ last = LastOf("none", 0, FALSE, FALSE, InitialLockJSON)
    /\ steps = 0
    /\ BuildIdle
    /\ GoIdle
    /\ getArgs \in [list : UNION {[1..k -> Repos] : k \in 1..MaxArgs},
                    upgrade : BOOLEAN, createPlugconf : BOOLEAN]
    /\ unit = [i \in 1..Len(getArgs.list) |-> NewUnit]
    /\ PureIdle

UnitsNext ==
    \/ \E i \in UnitIds :
          \/ UStart(i) \/ UUpgrade(i) \/ UFetchPlugin(i) \/ UPlainClone(i)
          \/ UCloneDone(i) \/ UHead(i) \/ UPlugconf(i)
          \/ URollback(i) \/ URollbackPanic(i)
    \/ Kill

-----------------------------------------------------------------------------
(* get: the status lines it prints *)

\* Everything but the functions checked on their own stays as it is.
PureFrame == UNCHANGED <<trxVars, lockVars, buildVars, unitVars, goVars>>

\* The result a unit sends on the channel (getParallelResult).
getParallelResult(reposPath, x) ==
    [reposPath |-> reposPath, status |-> x.status, hash |-> x.hash,
     type |-> x.type, err |-> x.err]

\* A status line: prefix, repository, text, and the hash the text names.
StatusLine(status, reposPath, hash) ==
    [prefix |-> Glyph(status), reposPath |-> reposPath, text |-> status,
     hash |-> IF status \in {"revupdate", "upgraded"} THEN hash ELSE ""]

\* The order of the bytes "!" < "#" < "*" < "+", of the repository paths, of
\* the texts after " > " and of the hashes.
PrefixRank == [x \in {"!", "#", "*", "+", ""} |->
                 IF x = "" THEN 0 ELSE IF x = "!" THEN 1 ELSE IF x = "#" THEN 2
                 ELSE IF x = "*" THEN 3 ELSE 4]
ReposRank == [r \in Repos |-> IF r = "a" THEN 1 ELSE 2]
TextRank == [x \in {"added", "exists", "failed", "installed", "nochange",
                    "revupdate", "upgraded", "none"} |->
               IF x = "none" THEN 0 ELSE IF x = "added" THEN 1
               ELSE IF x = "exists" THEN 2 ELSE IF x = "failed" THEN 3
               ELSE IF x = "installed" THEN 4 ELSE IF x = "nochange" THEN 5
               ELSE IF x = "revupdate" THEN 6 ELSE 7]
HashRank == [h \in Hashes \cup {""} |-> IF h = "" THEN 0 ELSE IF h = "h1" THEN 1 ELSE 2]

\* String comparison of two status lines.
LineKey(l) == <<PrefixRank[l.prefix], ReposRank[l.reposPath], TextRank[l.text],
                HashRank[l.hash]>>
RECURSIVE TupleLess(_, _)
TupleLess(a, b) ==
    IF a = <<>> THEN FALSE
    ELSE Head(a) < Head(b) \/ (Head(a) = Head(b) /\ TupleLess(Tail(a), Tail(b)))
LineLess(a, b) == TupleLess(LineKey(a), LineKey(b))

\* sort.Strings left out.
SortStringsSkipped(lines) == lines

\* sort.Strings
RECURSIVE SortStrings(_)
SortStrings(lines) ==
    IF lines = <<>> THEN <<>>
    ELSE LET rest == SortStrings(Tail(lines))
             k    == Cardinality({i \in 1..Len(rest) : LineLess(rest[i], Head(lines))})
         IN  SubSeq(rest, 1, k) \o <<Head(lines)>> \o SubSeq(rest, k + 1, Len(rest))

\* The loop "Wait results" of doGet (part_001:525-539): the status lines in
\* the order of arrival `order` of the results.
RECURSIVE WaitResults(_, _, _, _, _)
WaitResults(lock, results, order, pi, statusList) ==
    IF order = <<>> THEN statusList
    ELSE LET r      == results[Head(order)]
             failed == Glyph(r.status) = "!"
             added  == Added(lock, r.reposPath, pi)
             lock1  == IF failed THEN lock
                       ELSE updateReposVersion(lock, r.reposPath, r.type, r.hash, pi)
             status == IF failed THEN r.status ELSE ReportedStatus(r.status, added)
         IN  WaitResults(lock1, results, Tail(order), pi,
                         Append(statusList, StatusLine(status, r.reposPath, r.hash)))

\* What doGet prints (part_001:521-561) when the results arrive in `order`.
ShowResults(lock, results, order) ==
    SortStrings(WaitResults([lock EXCEPT !.trx_id = @ + 1], results, order,
                            FindByName(lock.profiles, lock.current_profile_name),
                            <<>>))

\* The orders in which n results can arrive.
ArrivalOrders(n) == {o \in [1..n -> 1..n] : \A i, j \in 1..n : o[i] = o[j] => i = j}

\* The results of the units of a get of `list`, each unit by its own.
RECURSIVE ResultLists(_, _, _, _)
ResultLists(lock, dirs, list, upgrade) ==
    IF list = <<>> THEN {<<>>}
    ELSE {<<getParallelResult(Head(list), x)>> \o rest :
             x \in {y \in UnitResults(lock, dirs, Head(list), upgrade) : ~y.panic},
             rest \in ResultLists(lock, dirs, Tail(list), upgrade)}

\* A get whose units have sent their results, which arrive in some order.
ReportInputs ==
    UNION {UNION {UNION {
        {[lock |-> InstalledLock(dirs), results |-> results, order |-> order] :
            results \in ResultLists(InstalledLock(dirs), dirs, list, upgrade),
            order \in ArrivalOrders(Len(list))} :
        upgrade \in BOOLEAN} :
        list \in UNION {[1..k -> Repos] : k \in 1..MaxArgs}} :
        dirs \in [Repos -> {NoDir, "h1"}]}

\* doGet collects the results and prints the status lines.
Report ==
    /\ output = NotCalled
    /\ output' = ShowResults(input.lock, input.results, input.order)
    /\ UNCHANGED input
    /\ PureFrame

-----------------------------------------------------------------------------
(* A build step by step: the units and the shared ftdetect directory *)

\* Build has started a unit for each repo of the list (git repos with a
\* working tree, none of them skipped) and waits for their results.
Goroutines == Repos \cup {"Build"}
Dispatched0 == [g \in Goroutines |-> IF g = "Build" THEN "wait" ELSE "new"]
ResultTaken(r) == bpc[r] \in {"received", "receivedErr"}

GoFrame == UNCHANGED <<trxVars, lockVars, buildVars, unitVars, pureVars, isDir, others, walk>>
GoTo(g, to) == bpc' = [bpc EXCEPT ![g] = to]

\* symlinkBuilder.installRepos, lines 154-159: builder.symlink(src, dst); the
\* examination of the repository before it can fail as well.
installReposSymlink(r) ==
    /\ strategy = "symlink" /\ bpc[r] = "new"
    /\ GoTo(r, "linked") \/ GoTo(r, "sentErr")
    /\ GoFrame

\* installRepos, lines 160-164: builder.helptags.
installReposHelptags(r) ==
    /\ bpc[r] = "linked"
    /\ GoTo(r, "tagged") \/ GoTo(r, "sentErr")
    /\ GoFrame

\* installRepos, line 165: builder.linkFTDFiles(src) begins to link the files
\* of src/ftdetect into the shared ftdetect directory; without src/ftdetect
\* it returns at once and the unit sends its result.
linkFTDFiles(r) ==
    /\ bpc[r] = "tagged"
    /\ GoTo(r, "ftd") \/ GoTo(r, "sent")
    /\ GoFrame

\* linkFTDFiles, lines 190-201: the walk ends, and the unit sends its result.
linkFTDFilesDone(r) ==
    /\ bpc[r] = "ftd"
    /\ GoTo(r, "sent") \/ GoTo(r, "sentErr")
    /\ GoFrame

\* copyBuilder.updateGitRepos, lines 570-579: os.RemoveAll(dst).
updateReposRemove(r) ==
    /\ strategy = "copy" /\ bpc[r] = "new"
    /\ GoTo(r, "removed") \/ GoTo(r, "sentErr")
    /\ GoFrame

\* updateBareGitRepos / updateNonBareGitRepos: the files are written under
\* dst, helptags runs, and the unit sends its result.
updateReposCopy(r) ==
    /\ bpc[r] = "removed"
    /\ GoTo(r, "sent") \/ GoTo(r, "sentErr")
    /\ GoFrame

\* Build takes a result from the done channel. symlinkBuilder.Build (lines
\* 79-87) returns at the first result with an error; waitCopyRepos
\* (456-474) takes every result and copyBuilder.Build returns after it when
\* one had an error (300-302).
BuildReceive(r) ==
    /\ bpc["Build"] = "wait" /\ bpc[r] \in {"sent", "sentErr"}
    /\ LET err   == bpc[r] = "sentErr"
           last1 == \A q \in Repos \ {r} : ResultTaken(q)
           anyErr == err \/ \E q \in Repos \ {r} : bpc[q] = "receivedErr"
       IN  bpc' = [bpc EXCEPT
                     ![r] = IF err THEN "receivedErr" ELSE "received",
                     !["Build"] =
                        IF strategy = "symlink"
                          THEN (IF err THEN "returned"
                                ELSE IF last1 THEN "plugconf" ELSE "wait")
                          ELSE (IF ~last1 THEN "wait"
                                ELSE IF anyErr THEN "returned" ELSE "plugconf")]
    /\ GoFrame

\* "Write bundled plugconf file" (symlink.go:89-99 and 304-314).
BuildPlugconf ==
    /\ bpc["Build"] = "plugconf"
    /\ \/ GoTo("Build", IF strategy = "copy" THEN "ftd" ELSE "write")
       \/ GoTo("Build", "returned")
    /\ GoFrame

\* copyBuilder.Build, lines 316-343: "Copy ftdetect files", one repo after
\* the other.
BuildCopyFTD ==
    /\ bpc["Build"] = "ftd"
    /\ GoTo("Build", "write") \/ GoTo("Build", "returned")
    /\ GoFrame

\* buildInfo.Write() and the return of Build.
BuildWrite ==
    /\ bpc["Build"] = "write"
    /\ GoTo("Build", "returned")
    /\ GoFrame

FtdNext ==
    \/ \E r \in Repos :
          \/ installReposSymlink(r) \/ installReposHelptags(r)
          \/ linkFTDFiles(r) \/ linkFTDFilesDone(r)
          \/ updateReposRemove(r) \/ updateReposCopy(r)
          \/ BuildReceive(r)
    \/ BuildPlugconf \/ BuildCopyFTD \/ BuildWrite

-----------------------------------------------------------------------------
(* rmCmd.removeRepos and the upward walk of removeDirs *)

\* The path of a repository, $VOLTPATH/repos/site/user/name, by levels:
\* 1..MaxAbove are the directories above the volt root (level 0 is /), then
\* the volt root, repos, site, user and the repository itself.
VoltRoot  == MaxAbove + 1
PathDepth == VoltRoot + 4
Levels    == 1..PathDepth
Ancestors == 1..(PathDepth - 1)

\* os.Remove(dir) succeeds on a directory that is there and holds nothing. The
\* volt root also holds trx.lock while it exists (pathutil.TrxLock) and
\* lock.json once it was written.
IsEmptyDir(l) ==
    /\ isDir[l] /\ ~others[l]
    /\ l < PathDepth => ~isDir[l + 1]
    /\ l = VoltRoot => (trxLock = NoFile /\ diskTrx = 0)

Walking(p) == walk.by = p /\ walk.st = "walking"
WalkFrame == UNCHANGED <<trxVars, lockVars, buildVars, unitVars, pureVars, bpc>>

\* removeRepos, lines 907-917, under the sentinel: os.RemoveAll(fullpath), then
\* cmd.removeDirs(dir) with the parent directory.
removeRepos(p) ==
    /\ pc[p] = "held" /\ walk.by = 0
    /\ isDir[PathDepth]
    /\ isDir' = [isDir EXCEPT ![PathDepth] = FALSE]
    /\ walk' = [by |-> p, cur |-> PathDepth - 1, st |-> "walking"]
    /\ UNCHANGED others
    /\ WalkFrame

\* removeDirs, one call: os.Remove(dir), and on success the call on the
\* parent; any error ends the walk. With dir = "/" the trimmed name is empty
\* and os.Remove fails.
removeDirs(p) ==
    /\ Walking(p)
    /\ IF walk.cur >= 1 /\ IsEmptyDir(walk.cur)
         THEN /\ isDir' = [isDir EXCEPT ![walk.cur] = FALSE]
              /\ walk' = [walk EXCEPT !.cur = @ - 1]
         ELSE /\ walk' = [walk EXCEPT !.st = "stopped"]
              /\ UNCHANGED isDir
    /\ UNCHANGED others
    /\ WalkFrame

\* The rest of the command: the write of lock.json, or an error return, and
\* the deferred transaction.Remove; they follow the walk.
removeReposEnd(p) ==
    /\ ~Walking(p)
    /\ WriteLockJSON(p) \/ RemoveRead(p)

WalkNext ==
    \E p \in Procs :
        \/ ReadLockJSON(p) \/ CreateWrite(p) \/ CreateReadBack(p)
        \/ removeRepos(p) \/ removeDirs(p) \/ removeReposEnd(p)
        \/ RemoveDelete(p)

-----------------------------------------------------------------------------
(* Specifications *)

TrxInit ==
    /\ trxLock = NoFile
    /\ pc = [p \in Procs |-> "idle"]
    /\ seen = [p \in Procs |-> NoFile]
    /\ rdPid = [p \in Procs |-> NoFile]
    /\ diskTrx = 0
    /\ memTrx = [p \in Procs |-> 0]

TrxNext ==
    \E p \in Procs :
        \/ ReadLockJSON(p) \/ CreateWrite(p) \/ CreateReadBack(p)
        \/ WriteLockJSON(p) \/ RemoveRead(p) \/ RemoveDelete(p)

\* No command has run yet and nothing is built.
IdleInit == TrxInit /\ LockInit /\ BuildIdle /\ UnitIdle /\ PureIdle /\ GoIdle

\* The repos of the current profile are installed and nothing is built.
InstalledInit == TrxInit /\ LockInit /\ BuildInit /\ UnitIdle /\ PureIdle /\ GoIdle

\* Everything but the functions checked on their own is as before the first
\* command.
RestIdle == TrxInit /\ LockInit /\ BuildIdle /\ UnitIdle /\ GoIdle

\* The status lines of a get, for every set of results and every order of
\* arrival.
ReportInit == RestIdle /\ input \in ReportInputs /\ output = NotCalled
SpecReport == ReportInit /\ [][Report]_vars

\* Several processes, each running mutating commands step by step.
SpecTrx ==
    /\ IdleInit
    /\ [][TrxNext]_vars

\* Processes running get step by step.
GetNext ==
    \E p \in Procs :
        \/ ReadLockJSON(p) \/ CreateWrite(p) \/ CreateReadBack(p)
        \/ GetUnits(p) \/ GetWrite(p) \/ GetBuild(p)
        \/ RemoveRead(p) \/ RemoveDelete(p)

SpecGet ==
    /\ IdleInit
    /\ [][GetNext]_vars

\* The processes of SpecTrx, any of which can crash.
CrashNext ==
    \/ TrxNext
    \/ \E p \in Procs : Crash(p)

SpecCrash ==
    /\ IdleInit
    /\ [][CrashNext]_vars

\* The units of one get, step by step.
SpecUnits ==
    /\ UnitsInit
    /\ [][UnitsNext]_vars

\* The units of one get and the wait loop of doGet, nobody killing the
\* process.
JoinNext ==
    \E i \in UnitIds :
        \/ UStart(i) \/ UUpgrade(i) \/ UFetchPlugin(i) \/ UPlainClone(i)
        \/ UCloneDone(i) \/ UHead(i) \/ UPlugconf(i)
        \/ URollback(i) \/ URollbackPanic(i) \/ UReceive(i)

SpecJoin ==
    /\ UnitsInit
    /\ [][JoinNext]_vars

\* One build of either strategy on installed repos, its goroutines step by
\* step.
FtdInit ==
    /\ TrxInit /\ LockInit /\ UnitIdle /\ PureIdle
    /\ strategy \in {"symlink", "copy"}
    /\ bLock = [r \in Repos |-> [type |-> "git", version |-> "h1", active |-> TRUE]]
    /\ worktree \in [Repos -> {"clean", "dirty"}]
    /\ dst = [r \in Repos |-> NoDst]
    /\ systemDir = FALSE
    /\ buildInfo = [r \in Repos |-> NoEntry]
    /\ lastBuild = NoBuild
    /\ touched = {}
    /\ bsteps = 0
    /\ bpc = Dispatched0
    /\ TreeIdle

SpecFtd ==
    /\ FtdInit
    /\ [][FtdNext]_vars

\* Processes that run rm on one installed repository, whose directories can
\* hold other entries or not.
WalkInit ==
    /\ TrxInit /\ LockInit /\ BuildIdle /\ UnitIdle /\ PureIdle
    /\ bpc = <<>>
    /\ isDir = [l \in Levels |-> TRUE]
    /\ others \in [Ancestors -> BOOLEAN]
    /\ walk = NoWalk

SpecWalk ==
    /\ WalkInit
    /\ [][WalkNext]_vars

\* One process running whole commands on lock.json and repos/.
SpecLock ==
    /\ IdleInit
    /\ [][LockNext]_vars

\* Builds of the runtime tree and what happens between them.
SpecBuild ==
    /\ InstalledInit
    /\ [][BuildNext]_vars

-----------------------------------------------------------------------------
(* pathutil: strings are sequences of characters *)

MaxSeg == 2            \* longest segment of a RepoID given to PackReposPathOf

\* The strings of 1 to n characters of the alphabet.
Strings(alphabet, n) == UNION {[1..k -> alphabet] : k \in 1..n}

\* strings.Join(paths, "/")
RECURSIVE Join(_)
Join(paths) ==
    IF paths = <<>> THEN <<>>
    ELSE IF Len(paths) = 1 THEN paths[1]
    ELSE paths[1] \o <<"/">> \o Join(Tail(paths))

\* The RepoIDs site/user/name whose segments have letters and underscores.
PackSegments == Strings({"a", "_"}, MaxSeg)
RepoIDs == {Join(<<site, user, name>>) :
               site \in PackSegments, user \in PackSegments, name \in PackSegments}

\* strings.NewReplacer("_", "__", "/", "_").Replace: one pass from the left,
\* the replacements are not scanned again.
RECURSIVE Replace(_)
Replace(str) ==
    IF str = <<>> THEN <<>>
    ELSE (IF Head(str) = "_" THEN <<"_", "_">>
          ELSE IF Head(str) = "/" THEN <<"_">>
          ELSE <<Head(str)>>) \o Replace(Tail(str))

\* pathutil.PackReposPathOf: the name of the directory under
\* pack/volt/start.
PackReposPathOf(reposPath) == Replace(reposPath)

PackInit == RestIdle /\ input \in RepoIDs /\ output = NotCalled

Pack ==
    /\ output = NotCalled
    /\ output' = PackReposPathOf(input)
    /\ UNCHANGED input
    /\ PureFrame

\* The destination directory of every RepoID.
SpecPack == PackInit /\ [][Pack]_vars

-----------------------------------------------------------------------------
(* pathutil.NormalizeRepos *)

\* A raw repository argument is a sequence of these pieces: a letter, the
\* separator, the suffix ".git", a scheme with its colon ("https:", "http:"
\* or "git:"), and the default site.
MaxRaw == 5            \* longest raw argument that is not of an accepted form
Pieces == {"x", "/", ".git", "https:"}
DefaultSite == "github.com"
Schemes == {<<"https:">>}

\* strings.Split(str, "/"): the segments between the separators.
RECURSIVE Split(_)
Split(str) ==
    IF \A i \in 1..Len(str) : str[i] # "/" THEN <<str>>
    ELSE LET i == CHOOSE i \in 1..Len(str) :
                     str[i] = "/" /\ \A j \in 1..(i - 1) : str[j] # "/"
         IN  <<SubSeq(str, 1, i - 1)>> \o Split(SubSeq(str, i + 1, Len(str)))

HasSuffixGit(str) == str # <<>> /\ str[Len(str)] = ".git"

\* strings.TrimSuffix(str, ".git")
TrimSuffix(str) == IF HasSuffixGit(str) THEN SubSeq(str, 1, Len(str) - 1) ELSE str

\* The last two segments, not three.
LastTwo(paths) == SubSeq(paths, Len(paths) - 1, Len(paths))

\* paths[len(paths)-3:]
LastThree(paths) == SubSeq(paths, Len(paths) - 2, Len(paths))

\* What NormalizeRepos returns: a path and a nil error, or an error; or the
\* call panics.
Normalized(path) == [kind |-> "ok", path |-> path]
InvalidFormat == [kind |-> "err", path |-> <<>>]
Panicked == [kind |-> "panic", path |-> <<>>]

\* pathutil.NormalizeRepos (filepath.ToSlash changes nothing where the
\* separator is the slash).
NormalizeRepos(rawReposPath) ==
    LET paths == Split(rawReposPath)
    IN  IF Len(paths) = 3 THEN Normalized(TrimSuffix(rawReposPath))
        ELSE IF Len(paths) = 2
          THEN Normalized(TrimSuffix(<<DefaultSite, "/">> \o rawReposPath))
        ELSE IF paths[1] \in Schemes
          THEN \* paths[len(paths)-3:] with fewer than three segments is a
               \* slice out of range
               IF Len(paths) < 3 THEN Panicked
               ELSE Normalized(TrimSuffix(Join(LastThree(paths))))
        ELSE InvalidFormat

\* The accepted forms without the optional suffix: user/name,
\* site/user/name, scheme://site/user/name, with no segment empty.
IsCoreForm(str) ==
    LET p == Split(str)
    IN  \/ Len(p) \in {2, 3} /\ \A i \in 1..Len(p) : p[i] # <<>>
        \/ /\ Len(p) = 5 /\ p[1] \in Schemes /\ p[2] = <<>>
           /\ \A i \in 3..5 : p[i] # <<>>
IsAccepted(str) == IsCoreForm(str) \/ (HasSuffixGit(str) /\ IsCoreForm(TrimSuffix(str)))

\* An accepted form whose name does not itself end in ".git".
IsAcceptedPlain(str) == IsCoreForm(TrimSuffix(str)) /\ ~HasSuffixGit(TrimSuffix(str))

\* A canonical id: three segments, none empty, no trailing ".git".
IsCanonical(path) ==
    /\ Len(Split(path)) = 3
    /\ \A i \in 1..3 : Split(path)[i] # <<>>
    /\ ~HasSuffixGit(path)

\* The arguments: every string of at most MaxRaw pieces, and the accepted
\* forms with segments of at most MaxSeg pieces.
NameSegments == Strings({"x", ".git"}, MaxSeg)
AcceptedForms ==
    LET cores == UNION {{Join(<<u, n>>), Join(<<t, u, n>>),
                         Join(<<<<"https:">>, <<>>, t, u, n>>)} :
                            t \in NameSegments, u \in NameSegments, n \in NameSegments}
    IN  cores \cup {c \o <<".git">> : c \in cores}
RawArguments == {<<>>} \cup Strings(Pieces, MaxRaw)

NormalizeInit ==
    /\ RestIdle
    /\ input \in RawArguments \cup AcceptedForms
    /\ output = <<>>             \* what the calls so far returned

\* The call NormalizeRepos(input).
Normalize ==
    /\ output = <<>>
    /\ output' = <<NormalizeRepos(input)>>
    /\ UNCHANGED input
    /\ PureFrame

\* The call of NormalizeRepos on the path it returned.
NormalizeAgain ==
    /\ Len(output) = 1
    /\ output[1].kind = "ok"
    /\ output' = Append(output, NormalizeRepos(output[1].path))
    /\ UNCHANGED input
    /\ PureFrame

SpecNormalize == NormalizeInit /\ [][Normalize \/ NormalizeAgain]_vars

-----------------------------------------------------------------------------
(* Properties *)

\* C1 (SpecTrx): at most one process is between a successful Create and the
\* end of its Remove, and no Create succeeds that wrote over the pid of
\* another process.
C1_MutualExclusion ==
    /\ Cardinality({p \in Procs : Holds(p)}) <= 1
    /\ \A p \in Procs : Holds(p) => seen[p] \notin (Procs \ {p})

\* C2 (SpecLock): every element of every profile's repos_path names an entry
\* of lock.repos, no repos_path has a duplicate, and no two entries of
\* lock.repos have the same path.
C2_ReferentialIntegrity ==
    /\ \A i \in 1..Len(lockJSON.profiles) :
          /\ IsInjective(lockJSON.profiles[i].repos_path)
          /\ \A j \in 1..Len(lockJSON.profiles[i].repos_path) :
                HasEntry(lockJSON, lockJSON.profiles[i].repos_path[j])
    /\ \A i, j \in 1..Len(lockJSON.repos) :
          lockJSON.repos[i].path = lockJSON.repos[j].path => i = j

\* rm has written a lock.json that still has an entry a profile refers to.
C2_Witness ==
    /\ last.cmd = "rm" /\ last.wrote
    /\ \E i \in 1..Len(lockJSON.profiles) : lockJSON.profiles[i].repos_path # <<>>

\* C3 (SpecBuild): after a build, the destination directory of every repo
\* whose unit failed does not exist or is as it was before the build.
C3_FailedUnitLeavesDst ==
    \A r \in Repos :
        lastBuild.unit[r] = "err" => (dst[r] = NoDst \/ r \in lastBuild.unchanged)

\* C4 (SpecBuild): after a copy build that returned success and in which no
\* unit failed, the destination directory of every git repo of the list whose working tree is clean holds
\* the files of the version of lock.json.
C4_DstIsLockedVersion ==
    (/\ lastBuild.strategy = "copy" /\ lastBuild.ret = "ok"
     /\ \A r \in Repos : lastBuild.unit[r] \notin {"err", "preerr"}) =>
        \A r \in getCurrentReposList :
            (bLock[r].type = "git" /\ worktree[r] = "clean") => dst[r] = bLock[r].version

\* C5 (SpecLock): a command that wrote lock.json wrote the trx_id it read
\* plus one, and the entries it added or updated carry that trx_id.
C5_TrxIdPlusOne ==
    last.wrote =>
        /\ lockJSON.trx_id = last.preTrx + 1
        /\ \A r \in last.ok : HasEntry(lockJSON, r) =>
              EntryOf(lockJSON, r).trx_id = lockJSON.trx_id

\* C6 (SpecLock): after a get in which some units failed and some did not,
\* lock.json has an entry and a reference of the current profile for each repo
\* that did not fail and no entry for a repo that failed, the directory of a
\* failed repo does not exist, trx_id went up by one and get returned non-zero.
C6_PartialFailure ==
    (last.cmd = "get" /\ last.failed # {} /\ last.ok # {}) =>
        /\ \A r \in last.ok :
              /\ HasEntry(lockJSON, r)
              /\ Contains(CurrentProfile(lockJSON).repos_path, r)
        /\ \A r \in last.failed : ~HasEntry(lockJSON, r) /\ reposDir[r] = NoDir
        /\ lockJSON.trx_id = last.preTrx + 1
        /\ last.ret # 0

\* C7 (SpecBuild): a copy build awaits as many results as were sent, returns
\* an error and writes no manifest when a unit failed (before or after its
\* dispatch), and receives the result of every unit that succeeded.
C7_CopyAccumulatesFailures ==
    lastBuild.strategy = "copy" =>
        /\ lastBuild.awaited = lastBuild.sent
        /\ (\E r \in Repos : lastBuild.unit[r] \in {"err", "preerr"}) =>
              (lastBuild.ret = "err" /\ ~lastBuild.wrote)
        /\ \A r \in Repos : lastBuild.unit[r] = "ok" => r \in lastBuild.received

\* C8 (SpecBuild): a symlink build in which a unit sent an error returns an
\* error and writes no manifest.
C8_SymlinkReportsFailures ==
    (lastBuild.strategy = "symlink" /\ \E r \in Repos : lastBuild.unit[r] = "err") =>
        (lastBuild.ret = "err" /\ ~lastBuild.wrote)

\* C9 (SpecBuild): a build that failed wrote no manifest, and a build skips no
\* repo of the list whose destination directory an earlier build changed
\* without writing the manifest.
C9_TouchedRematerialized ==
    /\ lastBuild.ret = "err" => ~lastBuild.wrote
    /\ lastBuild.skippedTouched = {}

C11_StaleSentinelBlocks ==
    [][\A p \in Procs :
          (StaleSentinel /\ pc[p] = "read" /\ pc'[p] # "read") => trxLock' = trxLock]_vars

\* C12 (SpecTrx): trx.lock exists while a process is between its successful
\* transaction.Create and the end of its transaction.Remove, and when it
\* exists some process is there, or inside transaction.Create past the write.
C12_SentinelIffHeld ==
    /\ (\E p \in Procs : Holds(p)) => trxLock # NoFile
    /\ trxLock # NoFile => \E p \in Procs : pc[p] \in HoldingPcs \cup {"wrote"}

\* C13 (SpecUnits): no two units of one get are at work on the same source
\* directory (cloning into it, upgrading it or rolling it back).
C13_UnitsDisjoint ==
    \A i, j \in DOMAIN unit :
        (i # j /\ unit[i].pc \in WorkPcs /\ unit[j].pc \in WorkPcs)
            => ReposPathOf(i) # ReposPathOf(j)

\* C14 (SpecUnits): a unit whose plugin step succeeded reports no error and
\* keeps its source directory, whatever the plug-config step did (the units
\* of the get being on different directories, and the process alive).
C14_PlugconfNeverFails ==
    IsInjective(getArgs.list) =>
        \A i \in DOMAIN unit :
            (unit[i].pluginOk /\ unit[i].pc = "done")
                => (~unit[i].err /\ reposDir[ReposPathOf(i)] # NoDir)

\* C15 (SpecUnits): at every point of a get, killed or not, the final source
\* directory of a repository does not exist or holds a complete clone.
C15_FinalDirAbsentOrComplete ==
    \A r \in Repos : reposDir[r] # PartialClone

\* The entries of lock.repos and the references of the profiles to the
\* repositories outside `removed`.
OthersOf(lock, removed) ==
    [repos    |-> SelectSeq(lock.repos, LAMBDA e : e.path \notin removed),
     profiles |-> [i \in 1..Len(lock.profiles) |->
                     [lock.profiles[i] EXCEPT
                        !.repos_path = SelectSeq(@, LAMBDA r : r \notin removed)]]]

\* A step of rm that returned 0.
RmSucceeded == last'.cmd = "rm" /\ last'.ret = 0 /\ steps' = steps + 1

\* C16 (SpecLock): after a successful rm of R, R has no entry in lock.repos,
\* no profile refers to R, the source directory of R does not exist, and the
\* other entries and references are as they were.
C16_RmRemovesEverywhere ==
    [][RmSucceeded =>
         /\ \A R \in last'.ok :
               /\ ~HasEntry(lockJSON', R)
               /\ \A i \in 1..Len(lockJSON'.profiles) :
                     ~Contains(lockJSON'.profiles[i].repos_path, R)
               /\ reposDir'[R] = NoDir
         /\ OthersOf(lockJSON', last'.ok) = OthersOf(lockJSON, last'.ok)
         /\ \A r \in Repos \ last'.ok : reposDir'[r] = reposDir[r]]_vars

\* A repo directory under pack/volt/start whose repo is not of the current
\* profile.
Orphan(r) == ~bLock[r].active /\ dst[r] # NoDst

Rematerialized(r) ==
    /\ lastBuild.wrote
    /\ lastBuild.unit[r] = "ok"
    /\ lastBuild.strategy = "copy" => r \in lastBuild.received

\* C18 (SpecBuild): the manifest entry written for a git repo that a build
\* re-materialized while its working tree was dirty has dirty_worktree set.
C18_DirtyWorktreeMarked ==
    \A r \in Repos :
        (Rematerialized(r) /\ bLock[r].type = "git" /\ worktree[r] = "dirty")
            => (buildInfo[r].present /\ buildInfo[r].dirty_worktree)

\* A step of get that returned (the process did not panic).
GetReturned == last'.cmd = "get" /\ steps' = steps + 1 /\ last'.ret # PanicExit

\* C19 (SpecLock): the status line of each unit of a get says what happened:
\* "+ installed" for a first clone, "* upgraded" for an upgrade that moved
\* HEAD, "#" for a repo left as it was, "!" for a failed unit.
C19_StatusMatchesOutcome ==
    [][GetReturned =>
         /\ \A r \in last'.failed : Glyph(last'.status[r]) = "!"
         /\ \A r \in last'.ok :
               /\ (reposDir[r] = NoDir /\ reposDir'[r] # NoDir)
                     => last'.status[r] = "installed"
               /\ (last'.upgrade /\ reposDir[r] \notin {NoDir, reposDir'[r]})
                     => last'.status[r] = "upgraded"
               /\ (reposDir'[r] = reposDir[r] /\ lockJSON'.repos = lockJSON.repos
                     /\ lockJSON'.profiles = lockJSON.profiles)
                     => Glyph(last'.status[r]) = "#"]_vars

\* r is installed: its source directory holds the commit lock.json has for
\* it, and the current profile refers to it.
InstalledInCurrent(lock, dirs, r) ==
    /\ HasEntry(lock, r)
    /\ dirs[r] \in Hashes /\ EntryOf(lock, r).version = dirs[r]
    /\ Contains(CurrentProfile(lock).repos_path, r)

\* C20 (SpecLock): a get without -u of one repo that is installed and in the
\* current profile, when it returns 0, has cloned nothing, has reported
\* "# ... already exists", and has written a lock.json that differs from
\* the one before in the trx_id of the document only.
C20_GetInstalledIsNoOp ==
    [][\A r \in Repos :
         (/\ GetReturned /\ ~last'.upgrade /\ last'.ret = 0
          /\ last'.ok = {r} /\ last'.failed = {}
          /\ InstalledInCurrent(lockJSON, reposDir, r))
         => /\ reposDir' = reposDir
            /\ last'.status[r] = "exists"
            /\ [lockJSON' EXCEPT !.trx_id = lockJSON.trx_id] = lockJSON]_vars

\* C21 (SpecReport): the status lines a get prints are the same for every
\* order in which the results of its units arrive.
C21_ReportIsDeterministic ==
    output # NotCalled =>
        \A o \in ArrivalOrders(Len(input.results)) :
            ShowResults(input.lock, input.results, o) = output

\* C21: two results arrived in the order opposite to that of their lines.
C21_Witness ==
    /\ output # NotCalled /\ Len(output) = 2
    /\ output[1] # output[2]
    /\ output[1].reposPath = input.results[input.order[2]].reposPath
    /\ output[1].text = input.results[input.order[2]].status

\* C22 (SpecPack): two different RepoIDs never have the same destination
\* directory, so the encoding can be decoded.
C22_PackIsInjective ==
    output # NotCalled =>
        \A id \in RepoIDs : PackReposPathOf(id) = output => id = input

\* NormalizeRepos has been called on the path it returned.
Renormalized == Len(output) = 2

C24_NormalizeTotal ==
    Len(output) >= 1 =>
        /\ output[1].kind \in {"ok", "err"}
        /\ output[1].kind = "ok" => IsCanonical(output[1].path)
        /\ ~IsAccepted(input) => output[1].kind = "err"

\* The profiles of the document that have the name.
ProfilesNamed(lock, name) == {i \in 1..Len(lock.profiles) : lock.profiles[i].name = name}

\* C25 (SpecLock): after every command lock.json has exactly one profile
\* named current_profile_name and no two profiles of one name; a command
\* that adds or removes a profile (profile new, profile destroy) leaves
\* current_profile_name as it was.
C25_OneCurrentProfile ==
    [][/\ Cardinality(ProfilesNamed(lockJSON', lockJSON'.current_profile_name)) = 1
       /\ \A name \in ProfileNames : Cardinality(ProfilesNamed(lockJSON', name)) <= 1
       /\ Len(lockJSON'.profiles) # Len(lockJSON.profiles)
             => lockJSON'.current_profile_name = lockJSON.current_profile_name]_vars

\* C25: profile destroy has removed the profile that was current before a
\* profile set.
C25_Witness ==
    /\ last.cmd = "profile" /\ last.ret = 0 /\ steps = MaxSteps
    /\ lockJSON.current_profile_name = "foo"
    /\ Len(lockJSON.profiles) = 1

\* C26 (SpecTrx): the trx_id values written to lock.json never decrease,
\* whatever the interleaving of the commands of the processes.
C26_TrxIdNeverDecreases == [][diskTrx' >= diskTrx]_vars

\* C30 (SpecTrx): the document a process writes is based on a read of
\* lock.json made while it held the sentinel, so that no write of another
\* process lies between the read and the write: what is written is the
\* successor of what is on disk.
C30_WriteBasedOnReadUnderSentinel ==
    [][\A p \in Procs :
          (pc[p] = "held" /\ pc'[p] = "written") => diskTrx' = diskTrx + 1]_vars

\* C27 (SpecGet): get writes lock.json only after the build engine has run:
\* a step that writes lock.json starts where the process has built.
C27_BuildBeforeWrite ==
    [][\A p \in Procs :
          (pc'[p] = "gwritten" /\ pc[p] # "gwritten") => pc[p] = "built"]_vars

\* C28 (SpecLock): get -u leaves the source directory of every static
\* repository (a directory without .git), with or without an entry in
\* lock.json, as it is.
C28_UpgradeIgnoresStatic ==
    [][(steps' # steps /\ last'.cmd = "get" /\ last'.upgrade)
          => \A r \in Repos : reposDir[r] = StaticDir => reposDir'[r] = StaticDir]_vars

\* The exit statuses of get (getCmd.Run).
GetCodes == {0, 10, 11, 12, 13, 20}

\* C29 (SpecLock): a command returns 0 exactly when it succeeded and a
\* status of 10 or more when it failed, get one of its documented statuses,
\* and a command that reported an error does not return 0.
C29_ExitCodes ==
    /\ last.ret # 0 => last.ret >= 10
    /\ last.cmd = "get" => last.ret \in GetCodes
    /\ last.logged => last.ret # 0

\* C40 (SpecTrx): transaction.Remove deletes trx.lock only when the file
\* holds the pid of the process that removes it, whatever another process's
\* Create does in between.
C40_RemoveDeletesOwnPidOnly ==
    [][\A p \in Procs :
          (pc[p] = "rmread" /\ pc'[p] = "idle" /\ trxLock' = NoFile) => trxLock = p]_vars

\* C39 (SpecLock): when get -u fails for a repository that is installed and
\* has an entry in lock.json, its source directory still exists after the
\* command.
C39_FailedUpgradeKeepsDir ==
    [][(steps' # steps /\ last'.cmd = "get" /\ last'.upgrade)
          => \A r \in last'.failed :
                (HasEntry(lockJSON, r) /\ reposDir[r] # NoDir) => reposDir'[r] # NoDir]_vars

\* C38 (SpecLock): after an rm that returned an error lock.json and the
\* source tree still agree: a repository that still has an entry in lock.json
\* still has the source directory it had before the command.
C38_FailedRmConsistent ==
    [][(steps' # steps /\ last'.cmd = "rm" /\ last'.ret # 0)
          => \A r \in Repos :
                (HasEntry(lockJSON', r) /\ reposDir[r] # NoDir) => reposDir'[r] # NoDir]_vars

\* C33 (SpecLock): a unit of get clones exactly when the source directory is
\* absent; on an existing directory without -u it does nothing to the
\* directory; with -u on an existing directory a unit that did not fail
\* (already up to date included) leaves the directory in place and the
\* version of the entry is the HEAD of the directory.
C33_UnitStateMachine ==
    [][GetReturned =>
         \A r \in last'.ok \cup last'.failed :
            /\ (reposDir[r] = NoDir /\ r \in last'.ok) => reposDir'[r] \in Hashes
            /\ (reposDir[r] # NoDir /\ ~last'.upgrade) => reposDir'[r] = reposDir[r]
            /\ (reposDir[r] \in Hashes /\ last'.upgrade /\ r \in last'.ok)
                  => /\ reposDir'[r] \in Hashes
                     /\ EntryOf(lockJSON', r).version = reposDir'[r]]_vars

\* C37 (SpecJoin): every unit of a get sends its one result on every path,
\* so that the wait loop of doGet can receive a result for each dispatched
\* unit: no unit ends without a result.
C37_EveryUnitSendsResult ==
    \A i \in DOMAIN unit : unit[i].pc # "dead"

\* C31 (SpecBuild): in a build of the symlink strategy every unit, the unit
\* of a bare git repository included, sends its result on the done channel
\* and the build returns.
C31_SymlinkBareTerminates ==
    lastBuild.strategy = "symlink" =>
        /\ \A r \in Repos : lastBuild.unit[r] # "hang"
        /\ lastBuild.ret # "hang"

\* A copy build that was given the entries of the manifest has just run.
IncrementalCopy == bsteps' # bsteps /\ lastBuild'.strategy = "copy" /\ ~lastBuild'.full

\* C32 (SpecBuild): in an incremental copy build the unit of a git repo,
\* working or bare, whose examination did not fail is dispatched exactly when
\* the repo has no manifest entry, or the lock version differs from the
\* version of the entry, or the working tree is dirty, or the entry has the
\* dirty marker; otherwise it is skipped.
C32_ChangePredicate ==
    [][IncrementalCopy =>
         \A r \in Repos :
            (bLock[r].type = "git" /\ lastBuild'.unit[r] \in {"skip", "ok", "err"}) =>
               (lastBuild'.unit[r] # "skip" <=>
                   \/ ~buildInfo[r].present
                   \/ bLock[r].version # buildInfo[r].version
                   \/ worktree[r] = "dirty"
                   \/ buildInfo[r].dirty_worktree)]_vars

\* C34 (SpecFtd): under both strategies the shared ftdetect directory is
\* written only by Build itself, in the post-pass, when every unit has
\* finished and its result has been received; so no two units write it at
\* the same time.
C34_FtdetectOnlyInPostPass ==
    \A g \in Goroutines :
        bpc[g] = "ftd" => (g = "Build" /\ \A r \in Repos : ResultTaken(r))

\* C35 (SpecBuild): when the unit of a copy build that writes the files of
\* the locked commit (updateBareGitRepos: the repo is bare or its working tree
\* is clean) reports success, the destination holds every file of the commit
\* of the lock version; a failed write makes the unit report an error.
C35_PinnedCopyComplete ==
    [][(bsteps' # bsteps /\ lastBuild'.strategy = "copy") =>
          \A r \in Repos :
             (/\ bLock[r].type = "git" /\ worktree[r] \in {"clean", "bare"}
              /\ lastBuild'.unit[r] = "ok") => dst'[r] = bLock[r].version]_vars

\* C36 (SpecWalk): the upward walk of removeDirs never removes the volt root
\* or a directory above it.
C36_WalkStopsBelowRoot == \A l \in 1..VoltRoot : isDir[l]

Init == IdleInit
Next == LockNext
Spec == SpecLock

====
